---------------------------- MODULE Spec2Model ----------------------------
(***************************************************************************)
(* Worker agent of ProcessingCluster: the in-memory job ledger (JobStore),  *)
(* the admission path (POST /jobs), cancellation (DELETE /jobs/:job_id),    *)
(* the scheduler loop (Scheduler._tick / _startJob) and the Docker          *)
(* execution backend (executeJob / runDockerWithTimeout).                   *)
(*                                                                         *)
(* Node.js runs every HTTP handler, timer callback and child-process event  *)
(* callback to completion on one thread, so each of them is one action.     *)
(* An async function runs synchronously up to its first await: _tick has no *)
(* await at all, and _startJob runs updateJob and the call of executeJob    *)
(* inside the tick that dispatched it. What follows                        *)
(* `await executeJob(...)` is a microtask of the callback that resolves    *)
(* the promise (the child's exit or error event, the timeout, or the tick  *)
(* itself when the promise is born resolved), so it belongs to that action.*)
(***************************************************************************)
EXTENDS Integers, Sequences, FiniteSets, TLC

(***************************************************************************)
(* Bounds of the model.                                                    *)
(***************************************************************************)
NumIds == 2          \* job identifiers submitted in Spec
SchedIds == 3        \* job identifiers submitted in SpecSched
MaxConcurrent == 2   \* largest configured maxConcurrentJobs
MaxClock == 2        \* distinct readings of the wall clock
MaxChunks == 1       \* output chunks the containers write, all together
MaxFaults == 1       \* executions that end otherwise than by exit code 0
MaxPatterns == 1     \* patterns in a configured image allow-list
NumWorkers == 1      \* addresses the dashboard can scan
MaxToken == 4        \* largest value of the dashboard's run token
MaxThreshold == 2    \* largest missedThreshold setting
MaxMisses == 2       \* largest missCount a poll result is added to
MaxPending == 2      \* fetches the dashboard awaits at one time

(***************************************************************************)
(* A JavaScript string is the sequence of its symbols: "" is << >>, and    *)
(* s + t is s \o t. A symbol is a character or a run of characters that no *)
(* operation of the program splits.                                        *)
(***************************************************************************)
IdNames == <<"A", "B", "C", "D", "E">>
IdSet(n) == {<<IdNames[i]>> : i \in 1..n}
Ids == IdSet(NumIds)

(***************************************************************************)
(* JavaScript values: a tag and, where there is one, the payload.          *)
(* null of a record field is Null; a set field is a one-element tuple.     *)
(***************************************************************************)
Null == <<>>
Some(v) == <<v>>
Undefined == <<"undefined">>
JsNull == <<"null">>
JsNum(n) == <<"number", n>>
JsStr(s) == <<"string", s>>
JsObj(r) == <<"object", r>>

TypeOf(v) == IF v[1] = "null" THEN "object" ELSE v[1]

Truthy(v) ==
  CASE v[1] = "number" -> v[2] # 0
    [] v[1] = "string" -> v[2] # <<>>
    [] v[1] = "object" -> TRUE
    [] OTHER -> FALSE

\* obj.field, undefined when the field is missing
Get(obj, f) == IF f \in DOMAIN obj[2] THEN obj[2][f] ELSE Undefined

\* { ...a, ...b }
Merge(a, b) ==
  [f \in DOMAIN a \cup DOMAIN b |-> IF f \in DOMAIN b THEN b[f] ELSE a[f]]

Min(a, b) == IF a < b THEN a ELSE b

Max(a, b) == IF a > b THEN a ELSE b

VARIABLES
  jobs,               \* JobStore.jobs: the Map's entries, in insertion order
  config,             \* the object exported by config.js
  intervalHandle,     \* Scheduler._intervalHandle
  intervals,          \* the number of interval timers that are active
  tickInProgress,     \* Scheduler._tickInProgress
  execs,              \* every executeJob invocation, in call order
  now,                \* the wall clock read by new Date()
  resp,               \* the HTTP response a handler has built, until sent
  call,               \* the last call made on the store or the scheduler directly
  refused,            \* history: the job_ids of the bodies validation rejected
  loaded,             \* dashboard: DOMContentLoaded has been handled
  discoveryTimer,     \* dashboard: discoveryTimer
  pollTimer,          \* dashboard: pollTimer
  activeRunToken,     \* dashboard: activeRunToken
  knownWorkerIPs,     \* dashboard: knownWorkerIPs
  workerState,        \* dashboard: workerState, the missCount of each key
  cards,              \* dashboard: the worker cards of the page, by address
  timers,             \* dashboard: the interval timers that are active
  pending,            \* dashboard: the fetches awaited, with their callers
  stops,              \* history: the calls of stopDashboard so far
  failedPolls         \* history: failed polls of each address since a good one

\* the state of the dashboard page
dashboard ==
  <<loaded, discoveryTimer, pollTimer, activeRunToken, knownWorkerIPs,
    workerState, cards, timers, pending, stops, failedPolls>>

\* the state that no callback of the worker process reads or writes
outside == <<call, refused, dashboard>>

vars == <<jobs, config, intervalHandle, intervals, tickInProgress, execs, now, resp,
          outside>>

NoCall == [op |-> "-"]

\* the dashboard's script evaluated, before DOMContentLoaded
DashInit ==
  /\ loaded = FALSE
  /\ discoveryTimer = Null
  /\ pollTimer = Null
  /\ activeRunToken = 0
  /\ knownWorkerIPs = {}
  /\ workerState = <<>>
  /\ cards = <<>>
  /\ timers = {}
  /\ pending = {}
  /\ stops = 0
  /\ failedPolls = <<>>

OutsideInit == call = NoCall /\ refused = {} /\ DashInit

(***************************************************************************)
(* JobStore                                                                *)
(***************************************************************************)
has(js, jobId) == \E i \in 1..Len(js) : js[i].job_id = jobId

IndexOf(js, jobId) == CHOOSE i \in 1..Len(js) : js[i].job_id = jobId

\* getJob: the record, or Null
getJob(js, jobId) == IF has(js, jobId) THEN Some(js[IndexOf(js, jobId)]) ELSE Null

\* the record createJob builds, with the creation time as its start time too
NewRecordStarted(jobId, jobObject, t) ==
  [job_id |-> jobId, state |-> "queued", created_at |-> Some(t),
   started_at |-> Some(t), finished_at |-> Null, exit_code |-> Null,
   stdout |-> <<>>, stderr |-> <<>>, error |-> Null, job |-> jobObject]

\* the record createJob builds
NewRecord(jobId, jobObject, t) ==
  [job_id |-> jobId, state |-> "queued", created_at |-> Some(t),
   started_at |-> Null, finished_at |-> Null, exit_code |-> Null,
   stdout |-> <<>>, stderr |-> <<>>, error |-> Null, job |-> jobObject]

\* createJob without the has() check: Map.set replaces the entry
createJobOverwrites(js, jobId, jobObject, t) ==
  IF has(js, jobId)
  THEN Some([js EXCEPT ![IndexOf(js, jobId)] = NewRecord(jobId, jobObject, t)])
  ELSE Some(Append(js, NewRecord(jobId, jobObject, t)))

\* createJob: the ledger after it, or Null where it throws; Map.set of a
\* new key appends the entry
createJob(js, jobId, jobObject, t) ==
  IF has(js, jobId) THEN Null
  ELSE Some(Append(js, NewRecord(jobId, jobObject, t)))

\* updateJob deleting the key before it sets it: the entry moves to the end
updateJobReinserts(js, jobId, partialUpdate) ==
  IF ~has(js, jobId) THEN js
  ELSE Append(SelectSeq(js, LAMBDA r : r.job_id # jobId),
              Merge(js[IndexOf(js, jobId)], partialUpdate))

\* updateJob setting the entry whether or not the key exists
updateJobUpserts(js, jobId, partialUpdate) ==
  IF ~has(js, jobId) THEN Append(js, Merge([job_id |-> jobId], partialUpdate))
  ELSE [js EXCEPT ![IndexOf(js, jobId)] = Merge(@, partialUpdate)]

\* updateJob: Map.set of an existing key keeps the entry's position
updateJob(js, jobId, partialUpdate) ==
  IF ~has(js, jobId) THEN js
  ELSE [js EXCEPT ![IndexOf(js, jobId)] = Merge(@, partialUpdate)]

\* what updateJob returns: the merged record, or Null
updateJobResult(js, jobId, partialUpdate) ==
  IF ~has(js, jobId) THEN Null
  ELSE Some(Merge(js[IndexOf(js, jobId)], partialUpdate))

\* getJobsByState: Map.values() iterates in insertion order
getJobsByState(js, state) == SelectSeq(js, LAMBDA r : r.state = state)

\* getRunningJobCount counting the records that have not ended
getRunningJobCountUnfinished(js) ==
  Len(getJobsByState(js, "running")) + Len(getJobsByState(js, "queued"))

getRunningJobCount(js) == Len(getJobsByState(js, "running"))

\* GET /health: the fields of the body that come from the store and the
\* configuration
getHealth(js, cfg) ==
  [status |-> "ok", running_jobs |-> getRunningJobCount(js),
   max_concurrent_jobs |-> cfg.maxConcurrentJobs]

(***************************************************************************)
(* api.js: validateJobRequest. The rejection code, or Null if valid.       *)
(***************************************************************************)
endsWith(s, suffix) ==
  /\ Len(s) >= Len(suffix)
  /\ SubSeq(s, Len(s) - Len(suffix) + 1, Len(s)) = suffix

startsWith(s, prefix) ==
  /\ Len(s) >= Len(prefix)
  /\ SubSeq(s, 1, Len(prefix)) = prefix

\* the wildcard compared without the colon: image.startsWith(prefix)
patternMatchesAnyPrefix(pattern, image) ==
  IF endsWith(pattern, <<":", "*">>)
  THEN startsWith(image, SubSeq(pattern, 1, Len(pattern) - 2))
  ELSE image = pattern

\* the callback of allowed.some(...)
patternMatches(pattern, image) ==
  IF endsWith(pattern, <<":", "*">>)
  THEN startsWith(image, SubSeq(pattern, 1, Len(pattern) - 2) \o <<":">>)
  ELSE image = pattern

isAllowed(allowed, image) ==
  \E i \in 1..Len(allowed) : patternMatches(allowed[i], image)

\* Array.isArray(config.allowedImages) && config.allowedImages.length > 0
allowListActive(cfg) ==
  /\ "allowedImages" \in DOMAIN cfg
  /\ Len(cfg.allowedImages) > 0

\* job.protocol_version != 1, the loose comparison
validateLooseVersion(job, cfg) ==
  IF ~Truthy(job) \/ TypeOf(job) # "object" THEN Some("INVALID_BODY")
  ELSE IF Get(job, "protocol_version") \notin {JsNum(1), JsStr(<<"1">>)}
    THEN Some("UNSUPPORTED_PROTOCOL_VERSION")
  ELSE IF ~Truthy(Get(job, "job_id")) \/ TypeOf(Get(job, "job_id")) # "string"
    THEN Some("MISSING_JOB_ID")
  ELSE IF ~Truthy(Get(job, "runtime")) \/ TypeOf(Get(job, "runtime")) # "object"
    THEN Some("MISSING_RUNTIME")
  ELSE LET runtime == Get(job, "runtime")
           mode == Get(runtime, "mode")
           image == Get(runtime, "image")
       IN IF mode # JsStr(<<"image">>) /\ mode # JsStr(<<"build">>)
            THEN Some("BAD_RUNTIME_MODE")
          ELSE IF mode = JsStr(<<"build">>) THEN Some("RUNTIME_NOT_SUPPORTED")
          ELSE IF ~Truthy(image) \/ TypeOf(image) # "string"
            THEN Some("MISSING_IMAGE")
          ELSE IF allowListActive(cfg) /\ ~isAllowed(cfg.allowedImages, image[2])
            THEN Some("IMAGE_NOT_ALLOWED")
          ELSE Null

\* the runtime rule tested before the job_id rule
validateRuntimeFirst(job, cfg) ==
  IF ~Truthy(job) \/ TypeOf(job) # "object" THEN Some("INVALID_BODY")
  ELSE IF Get(job, "protocol_version") # JsNum(1)
    THEN Some("UNSUPPORTED_PROTOCOL_VERSION")
  ELSE IF ~Truthy(Get(job, "runtime")) \/ TypeOf(Get(job, "runtime")) # "object"
    THEN Some("MISSING_RUNTIME")
  ELSE IF ~Truthy(Get(job, "job_id")) \/ TypeOf(Get(job, "job_id")) # "string"
    THEN Some("MISSING_JOB_ID")
  ELSE LET runtime == Get(job, "runtime")
           mode == Get(runtime, "mode")
           image == Get(runtime, "image")
       IN IF mode # JsStr(<<"image">>) /\ mode # JsStr(<<"build">>)
            THEN Some("BAD_RUNTIME_MODE")
          ELSE IF mode = JsStr(<<"build">>) THEN Some("RUNTIME_NOT_SUPPORTED")
          ELSE IF ~Truthy(image) \/ TypeOf(image) # "string"
            THEN Some("MISSING_IMAGE")
          ELSE IF allowListActive(cfg) /\ ~isAllowed(cfg.allowedImages, image[2])
            THEN Some("IMAGE_NOT_ALLOWED")
          ELSE Null

validateJobRequest(job, cfg) ==
  IF ~Truthy(job) \/ TypeOf(job) # "object" THEN Some("INVALID_BODY")
  ELSE IF Get(job, "protocol_version") # JsNum(1)
    THEN Some("UNSUPPORTED_PROTOCOL_VERSION")
  ELSE IF ~Truthy(Get(job, "job_id")) \/ TypeOf(Get(job, "job_id")) # "string"
    THEN Some("MISSING_JOB_ID")
  ELSE IF ~Truthy(Get(job, "runtime")) \/ TypeOf(Get(job, "runtime")) # "object"
    THEN Some("MISSING_RUNTIME")
  ELSE LET runtime == Get(job, "runtime")
           mode == Get(runtime, "mode")
           image == Get(runtime, "image")
       IN IF mode # JsStr(<<"image">>) /\ mode # JsStr(<<"build">>)
            THEN Some("BAD_RUNTIME_MODE")
          ELSE IF mode = JsStr(<<"build">>) THEN Some("RUNTIME_NOT_SUPPORTED")
          ELSE IF ~Truthy(image) \/ TypeOf(image) # "string"
            THEN Some("MISSING_IMAGE")
          ELSE IF allowListActive(cfg) /\ ~isAllowed(cfg.allowedImages, image[2])
            THEN Some("IMAGE_NOT_ALLOWED")
          ELSE Null

(***************************************************************************)
(* api.js: the handlers. A response is                                     *)
(* [op, status, job_id, state, accepted, code], a missing field Null;      *)
(* `record` is the rest of what GET answers for a known job, and `request` *)
(* is the body of the POST the response answers, kept with it until it is  *)
(* sent.                                                                   *)
(***************************************************************************)
Response(op, status, jobId, state, accepted, code) ==
  [op |-> op, status |-> status, job_id |-> jobId, state |-> state,
   accepted |-> accepted, code |-> code, record |-> Null,
   request |-> Undefined]

\* job?.job_id ?? null
jobIdOrNull(job) ==
  IF job[1] # "object" THEN JsNull
  ELSE IF Get(job, "job_id") = Undefined THEN JsNull
  ELSE Get(job, "job_id")

\* POST /jobs keeping the identifier of a body it rejects, as a failed
\* record
postJobsReservesId(js, cfg, job, t) ==
  LET validationError == validateJobRequest(job, cfg) IN
  IF validationError # Null
  THEN [jobs |-> IF jobIdOrNull(job)[1] = "string" /\ ~has(js, jobIdOrNull(job)[2])
                 THEN Append(js, [NewRecord(jobIdOrNull(job)[2], job, t)
                                    EXCEPT !.state = "failed",
                                           !.finished_at = Some(t),
                                           !.error = validationError])
                 ELSE js,
        resp |-> Response("POST", 400, jobIdOrNull(job), "rejected",
                          Some(FALSE), validationError)]
  ELSE LET jobId == Get(job, "job_id")[2]
           created == createJob(js, jobId, job, t)
       IN IF created = Null
          THEN [jobs |-> js,
                resp |-> Response("POST", 409, JsStr(jobId), "rejected",
                                  Some(FALSE), Some("JOB_ID_ALREADY_EXISTS"))]
          ELSE [jobs |-> created[1],
                resp |-> Response("POST", 202, JsStr(jobId), "queued",
                                  Some(TRUE), Null)]

\* POST /jobs keeping a record of what it rejects
postJobsRecordsRejected(js, cfg, job, t) ==
  LET validationError == validateJobRequest(job, cfg)
      rejected == Response("POST", 400, jobIdOrNull(job), "rejected",
                           Some(FALSE), validationError)
  IN IF validationError # Null
     THEN IF jobIdOrNull(job)[1] = "string" /\ ~has(js, jobIdOrNull(job)[2])
          THEN [jobs |-> Append(js, [NewRecord(jobIdOrNull(job)[2], job, t)
                                       EXCEPT !.state = "rejected"]),
                resp |-> rejected]
          ELSE [jobs |-> js, resp |-> rejected]
     ELSE LET jobId == Get(job, "job_id")[2]
              created == createJob(js, jobId, job, t)
          IN IF created = Null
             THEN [jobs |-> js,
                   resp |-> Response("POST", 409, JsStr(jobId), "rejected",
                                     Some(FALSE), Some("JOB_ID_ALREADY_EXISTS"))]
             ELSE [jobs |-> created[1],
                   resp |-> Response("POST", 202, JsStr(jobId), "queued",
                                     Some(TRUE), Null)]

\* POST /jobs: the ledger and the response after the request
postJobs(js, cfg, job, t) ==
  LET validationError == validateJobRequest(job, cfg) IN
  IF validationError # Null
  THEN [jobs |-> js,
        resp |-> Response("POST", 400, jobIdOrNull(job), "rejected",
                          Some(FALSE), validationError)]
  ELSE LET jobId == Get(job, "job_id")[2]
           created == createJob(js, jobId, job, t)
       IN IF created = Null   \* createJob threw, the handler catches
          THEN [jobs |-> js,
                resp |-> Response("POST", 409, JsStr(jobId), "rejected",
                                  Some(FALSE), Some("JOB_ID_ALREADY_EXISTS"))]
          ELSE [jobs |-> created[1],
                resp |-> Response("POST", 202, JsStr(jobId),
                                  getJob(created[1], jobId)[1].state,
                                  Some(TRUE), Null)]

\* the cancellation update without its state field
cancelUpdateKeepsState(t) ==
  [finished_at |-> Some(t), error |-> Some("CANCELLED")]

\* the cancellation update stamping a start time as well
cancelUpdateStampsStart(t) ==
  [state |-> "failed", started_at |-> Some(t), finished_at |-> Some(t),
   error |-> Some("CANCELLED")]

\* the partial update DELETE applies to a queued record
cancelUpdate(t) ==
  [state |-> "failed", finished_at |-> Some(t), error |-> Some("CANCELLED")]

\* DELETE that cancels every record that is not running
deleteJobNotRunning(js, jobId, t) ==
  LET record == getJob(js, jobId) IN
  IF record = Null
  THEN [jobs |-> js,
        resp |-> Response("DELETE", 404, JsStr(jobId), "not_found", Null, Null)]
  ELSE IF record[1].state # "running"
  THEN LET updated == updateJob(js, jobId, cancelUpdate(t)) IN
       [jobs |-> updated,
        resp |-> Response("DELETE", 200, JsStr(jobId),
                          getJob(updated, jobId)[1].state, Null, Null)]
  ELSE [jobs |-> js,
        resp |-> Response("DELETE", 202, JsStr(jobId), record[1].state,
                          Null, Null)]

\* DELETE that cancels whatever the state of the record
deleteJobAnyState(js, jobId, t) ==
  LET record == getJob(js, jobId) IN
  IF record = Null
  THEN [jobs |-> js,
        resp |-> Response("DELETE", 404, JsStr(jobId), "not_found", Null, Null)]
  ELSE LET updated == updateJob(js, jobId, cancelUpdate(t)) IN
       [jobs |-> updated,
        resp |-> Response("DELETE", 200, JsStr(jobId),
                          getJob(updated, jobId)[1].state, Null, Null)]

\* DELETE that answers with the record it read before the update
deleteJobStaleResponse(js, jobId, t) ==
  LET record == getJob(js, jobId) IN
  IF record = Null
  THEN [jobs |-> js,
        resp |-> Response("DELETE", 404, JsStr(jobId), "not_found", Null, Null)]
  ELSE IF record[1].state = "queued"
  THEN [jobs |-> updateJob(js, jobId, cancelUpdate(t)),
        resp |-> Response("DELETE", 200, JsStr(jobId), record[1].state, Null, Null)]
  ELSE [jobs |-> js,
        resp |-> Response("DELETE", 202, JsStr(jobId), record[1].state,
                          Null, Null)]

\* DELETE that cancels a running record as it cancels a queued one
deleteJobCancelsRunning(js, jobId, t) ==
  LET record == getJob(js, jobId) IN
  IF record = Null
  THEN [jobs |-> js,
        resp |-> Response("DELETE", 404, JsStr(jobId), "not_found", Null, Null)]
  ELSE IF record[1].state \in {"queued", "running"}
  THEN LET updated == updateJob(js, jobId, cancelUpdate(t)) IN
       [jobs |-> updated,
        resp |-> Response("DELETE", 200, JsStr(jobId),
                          getJob(updated, jobId)[1].state, Null, Null)]
  ELSE [jobs |-> js,
        resp |-> Response("DELETE", 202, JsStr(jobId), record[1].state,
                          Null, Null)]

\* DELETE that removes the queued record from the Map
deleteJobRemoves(js, jobId, t) ==
  LET record == getJob(js, jobId) IN
  IF record = Null
  THEN [jobs |-> js,
        resp |-> Response("DELETE", 404, JsStr(jobId), "not_found", Null, Null)]
  ELSE IF record[1].state = "queued"
  THEN [jobs |-> SelectSeq(js, LAMBDA r : r.job_id # jobId),
        resp |-> Response("DELETE", 200, JsStr(jobId), "failed", Null, Null)]
  ELSE [jobs |-> js,
        resp |-> Response("DELETE", 202, JsStr(jobId), record[1].state,
                          Null, Null)]

\* DELETE that notes the request on a running record
deleteJobStampsRunning(js, jobId, t) ==
  LET record == getJob(js, jobId) IN
  IF record = Null
  THEN [jobs |-> js,
        resp |-> Response("DELETE", 404, JsStr(jobId), "not_found", Null, Null)]
  ELSE IF record[1].state = "queued"
  THEN LET updated == updateJob(js, jobId, cancelUpdate(t)) IN
       [jobs |-> updated,
        resp |-> Response("DELETE", 200, JsStr(jobId),
                          getJob(updated, jobId)[1].state, Null, Null)]
  ELSE [jobs |-> IF record[1].state = "running"
                 THEN updateJob(js, jobId, [error |-> Some("CANCELLED")])
                 ELSE js,
        resp |-> Response("DELETE", 202, JsStr(jobId), record[1].state,
                          Null, Null)]

\* DELETE /jobs/:job_id: the ledger and the response after the request
deleteJob(js, jobId, t) ==
  LET record == getJob(js, jobId) IN
  IF record = Null
  THEN [jobs |-> js,
        resp |-> Response("DELETE", 404, JsStr(jobId), "not_found", Null, Null)]
  ELSE IF record[1].state = "queued"
  THEN LET updated == updateJob(js, jobId, cancelUpdate(t)) IN
       [jobs |-> updated,
        resp |-> Response("DELETE", 200, JsStr(jobId),
                          getJob(updated, jobId)[1].state, Null, Null)]
  ELSE [jobs |-> js,
        resp |-> Response("DELETE", 202, JsStr(jobId), record[1].state,
                          Null, Null)]

\* GET /jobs/:job_id answering an unknown identifier with an empty job
getJobStatusDefault(js, jobId) ==
  LET record == getJob(js, jobId) IN
  IF record = Null
  THEN Response("GET", 200, JsStr(jobId), "queued", Null, Null)
  ELSE [Response("GET", 200, JsStr(record[1].job_id), record[1].state, Null, Null)
          EXCEPT !.record = Some([f \in DOMAIN record[1] \ {"job"} |-> record[1][f]])]

\* GET /jobs/:job_id: the response
getJobStatus(js, jobId) ==
  LET record == getJob(js, jobId) IN
  IF record = Null
  THEN Response("GET", 404, JsStr(jobId), "not_found", Null, Null)
  ELSE [Response("GET", 200, JsStr(record[1].job_id), record[1].state, Null, Null)
          EXCEPT !.record = Some([f \in DOMAIN record[1] \ {"job"} |-> record[1][f]])]

(***************************************************************************)
(* executor.js. An invocation of executeJob is                             *)
(*   job_id    the job it runs                                             *)
(*   spawned   a docker child process was started                          *)
(*   finished  the `finished` flag of runDockerWithTimeout                 *)
(*   timer     the timeout timer is armed and has not fired                *)
(*   stdout, stderr  the text accumulated from the child                   *)
(*   result    Null while the promise is pending, else the value resolved  *)
(***************************************************************************)
Result(exitCode, stdout, stderr, errorCode) ==
  [exitCode |-> exitCode, stdout |-> stdout, stderr |-> stderr,
   errorCode |-> errorCode]

orEmpty(v) == IF Truthy(v) THEN v ELSE JsObj(<<>>)

\* the number NaN: falsy like 0, and told from 0 by its third component
NaN == <<"number", 0, "NaN">>

isNaN(v) == Len(v) = 3

\* the value of a string that spells a decimal integer: <<n>>, else Null
numeral(s) ==
  LET digits == <<"1", "2", "3", "4", "5", "6", "7", "8", "9">>
      digit(c) == IF \E d \in 1..9 : digits[d] = c
                  THEN Some(CHOOSE d \in 1..9 : digits[d] = c)
                  ELSE IF c = "0" THEN Some(0) ELSE Null
  IN IF Len(s) = 1 THEN digit(s[1])
     ELSE IF Len(s) = 2 /\ s[1] = "-" /\ digit(s[2]) # Null
       THEN Some(0 - digit(s[2])[1])
     ELSE Null

\* Number(v)
Number(v) ==
  CASE v[1] = "number" -> v
    [] v[1] = "string" -> IF v[2] = <<>> THEN JsNum(0)
                          ELSE IF numeral(v[2]) # Null THEN JsNum(numeral(v[2])[1])
                          ELSE NaN
    [] v[1] = "null" -> JsNum(0)
    [] OTHER -> NaN          \* undefined, and an object without valueOf

\* Number(limits.max_runtime_seconds || 10) * 1000
timeoutMs(limits) ==
  LET v == Get(limits, "max_runtime_seconds")
      timeoutSeconds == Number(IF Truthy(v) THEN v ELSE JsNum(10))
  IN IF isNaN(timeoutSeconds) THEN NaN ELSE JsNum(timeoutSeconds[2] * 1000)

\* timeoutMs > 0, which is false of NaN
positive(n) == ~isNaN(n) /\ n[2] > 0

\* JSON.stringify(v): the text, a sequence of tokens. A member whose value
\* is undefined is left out, NaN is written as null, and undefined itself
\* has no text. The members are written in the order of the object's keys,
\* which for a parsed body is the order of the submitted text; the
\* model's objects carry no order, and one is chosen.
RECURSIVE stringify(_)
RECURSIVE stringifyMembers(_, _)
stringify(v) ==
  CASE v[1] = "number" -> IF isNaN(v) THEN <<<<"null">>>> ELSE <<<<"num", v[2]>>>>
    [] v[1] = "string" -> <<<<"str", v[2]>>>>
    [] v[1] = "null" -> <<<<"null">>>>
    [] v[1] = "object" ->
         <<<<"{">>>>
           \o stringifyMembers(v[2], {k \in DOMAIN v[2] : v[2][k] # Undefined})
           \o <<<<"}">>>>
    [] OTHER -> <<>>

stringifyMembers(r, keys) ==
  IF keys = {} THEN <<>>
  ELSE LET k == CHOOSE x \in keys : TRUE
       IN <<<<"key", k>>, <<":">>>> \o stringify(r[k])
            \o (IF keys = {k} THEN <<>>
                ELSE <<<<",">>>> \o stringifyMembers(r, keys \ {k}))

\* JSON.parse(text), as express.json() applies it to a request body and a
\* container to its standard input: <<the value, the text left over>>
RECURSIVE parse(_)
RECURSIVE parseMembers(_, _)
parse(text) ==
  LET t == Head(text)
  IN CASE t[1] = "num" -> <<JsNum(t[2]), Tail(text)>>
       [] t[1] = "str" -> <<JsStr(t[2]), Tail(text)>>
       [] t[1] = "null" -> <<JsNull, Tail(text)>>
       [] t[1] = "{" ->
            IF text[2][1] = "}" THEN <<JsObj(<<>>), Tail(Tail(text))>>
            ELSE parseMembers(Tail(text), <<>>)

parseMembers(text, members) ==
  LET value == parse(Tail(Tail(text)))
      sofar == (text[1][2] :> value[1]) @@ members
      rest == value[2]
  IN IF Head(rest)[1] = "," THEN parseMembers(Tail(rest), sofar)
     ELSE <<JsObj(sofar), Tail(rest)>>

\* executeJob without the test of runtime.image
executeJobAnyImage(jobRecord, spawnThrows) ==
  LET limits == orEmpty(Get(orEmpty(Get(orEmpty(jobRecord.job), "runtime")), "limits"))
      base == [job_id |-> jobRecord.job_id, spawned |-> FALSE,
               finished |-> FALSE, timer |-> FALSE, stdin |-> Null,
               stdout |-> <<>>, stderr |-> <<>>, result |-> Null]
  IN IF spawnThrows
     THEN [base EXCEPT !.result =
             Some(Result(Null, <<>>, <<"Failed to start docker">>,
                         Some("DOCKER_ERROR")))]
     ELSE [base EXCEPT !.spawned = TRUE, !.timer = positive(timeoutMs(limits)),
                       !.stdin = Some(stringify(orEmpty(jobRecord.job)))]

\* executeJob writing the runtime section alone to the child
executeJobSendsRuntime(jobRecord, spawnThrows) ==
  LET job == orEmpty(jobRecord.job)
      runtime == orEmpty(Get(job, "runtime"))
      image == Get(runtime, "image")
      limits == orEmpty(Get(runtime, "limits"))
      base == [job_id |-> jobRecord.job_id, spawned |-> FALSE,
               finished |-> FALSE, timer |-> FALSE, stdin |-> Null,
               stdout |-> <<>>, stderr |-> <<>>, result |-> Null]
  IN IF ~Truthy(image) \/ TypeOf(image) # "string"
     THEN [base EXCEPT !.result =
             Some(Result(Null, <<>>, <<"Missing or invalid runtime.image">>,
                         Some("DOCKER_ERROR")))]
     ELSE IF spawnThrows
     THEN [base EXCEPT !.result =
             Some(Result(Null, <<>>, <<"Failed to start docker">>,
                         Some("DOCKER_ERROR")))]
     ELSE [base EXCEPT !.spawned = TRUE, !.timer = positive(timeoutMs(limits)),
                       !.stdin = Some(stringify(runtime))]

\* executeJob up to the return of the promise; spawnThrows: spawn() throws
executeJob(jobRecord, spawnThrows) ==
  LET job == orEmpty(jobRecord.job)
      runtime == orEmpty(Get(job, "runtime"))
      image == Get(runtime, "image")
      limits == orEmpty(Get(runtime, "limits"))
      base == [job_id |-> jobRecord.job_id, spawned |-> FALSE,
               finished |-> FALSE, timer |-> FALSE, stdin |-> Null,
               stdout |-> <<>>, stderr |-> <<>>, result |-> Null]
  IN IF ~Truthy(image) \/ TypeOf(image) # "string"
     THEN [base EXCEPT !.result =
             Some(Result(Null, <<>>, <<"Missing or invalid runtime.image">>,
                         Some("DOCKER_ERROR")))]
     ELSE IF spawnThrows
     THEN [base EXCEPT !.result =
             Some(Result(Null, <<>>, <<"Failed to start docker">>,
                         Some("DOCKER_ERROR")))]
     ELSE [base EXCEPT !.spawned = TRUE, !.timer = positive(timeoutMs(limits)),
                       !.stdin = Some(stringify(job))]

\* child.on("exit") without clearTimeout
onExitKeepsTimer(e, code) ==
  IF e.finished THEN e
  ELSE [e EXCEPT !.finished = TRUE,
                 !.result = Some(Result(code, e.stdout, e.stderr, Null))]

\* child.on("exit")
onExit(e, code) ==
  IF e.finished THEN e
  ELSE [e EXCEPT !.finished = TRUE, !.timer = FALSE,
                 !.result = Some(Result(code, e.stdout, e.stderr, Null))]

\* child.on("error")
onError(e) ==
  IF e.finished THEN e
  ELSE [e EXCEPT !.finished = TRUE, !.timer = FALSE,
                 !.result = Some(Result(Null, e.stdout,
                                        e.stderr \o <<"[executor] docker spawn error">>,
                                        Some("DOCKER_ERROR")))]

\* the setTimeout callback resolving without the output captured so far
onTimeoutDropsOutput(e) ==
  IF e.finished THEN [e EXCEPT !.timer = FALSE]
  ELSE [e EXCEPT !.finished = TRUE, !.timer = FALSE,
                 !.result = Some(Result(Null, <<>>, <<"[executor] Job timed out">>,
                                        Some("TIMEOUT")))]

\* the setTimeout callback
onTimeout(e) ==
  IF e.finished THEN [e EXCEPT !.timer = FALSE]
  ELSE [e EXCEPT !.finished = TRUE, !.timer = FALSE,
                 !.result = Some(Result(Null, e.stdout,
                                        e.stderr \o <<"[executor] Job timed out">>,
                                        Some("TIMEOUT")))]

(***************************************************************************)
(* Scheduler (jobStore.js)                                                 *)
(***************************************************************************)
\* the slots counted without the running jobs
availableSlotsAll(js, cfg) == cfg.maxConcurrentJobs

availableSlots(js, cfg) == cfg.maxConcurrentJobs - getRunningJobCount(js)

\* queuedJobs.slice(-availableSlots): the newest queued jobs
toStartNewest(js, cfg) ==
  LET queuedJobs == getJobsByState(js, "queued")
      n == Min(availableSlots(js, cfg), Len(queuedJobs))
  IN SubSeq(queuedJobs, Len(queuedJobs) - n + 1, Len(queuedJobs))

\* queuedJobs.slice(0, 1): one job a tick, whatever the free slots
toStartOne(js, cfg) ==
  LET queuedJobs == getJobsByState(js, "queued") IN
  SubSeq(queuedJobs, 1, Min(1, Len(queuedJobs)))

\* queuedJobs.slice(0, availableSlots), for availableSlots > 0
toStart(js, cfg) ==
  LET queuedJobs == getJobsByState(js, "queued") IN
  SubSeq(queuedJobs, 1, Min(availableSlots(js, cfg), Len(queuedJobs)))

\* the dispatch update without its state field
runningUpdateKeepsState(t) == [started_at |-> Some(t)]

\* the partial update of _startJob's first updateJob
runningUpdate(t) == [state |-> "running", started_at |-> Some(t)]

\* _startJob awaiting the result before it marks the record: the record
\* is written once, with the outcome, and stays queued while the job runs
startJobAwaitsFirst(js, ex, jobRecord, t, spawnThrows) ==
  LET jobId == jobRecord.job_id IN
  IF ~has(js, jobId) THEN <<js, ex>>
  ELSE <<updateJob(js, jobId, [started_at |-> Some(t)]),
         Append(ex, executeJob(getJob(js, jobId)[1], spawnThrows))>>

\* _startJob up to its await: <<ledger, invocations>> after it
startJob(js, ex, jobRecord, t, spawnThrows) ==
  LET jobId == jobRecord.job_id
      updated == updateJob(js, jobId, runningUpdate(t))
  IN IF ~has(js, jobId) THEN <<js, ex>>
     ELSE <<updated, Append(ex, executeJob(getJob(updated, jobId)[1], spawnThrows))>>

\* for (const jobRecord of toStart) this._startJob(jobRecord)
RECURSIVE startAll(_, _, _, _, _)
startAll(js, ex, selected, t, throwing) ==
  IF selected = <<>> THEN <<js, ex>>
  ELSE LET after == startJob(js, ex, Head(selected), t,
                             Head(selected).job_id \in throwing)
       IN startAll(after[1], after[2], Tail(selected), t, throwing)

\* the body of _tick inside try: <<ledger, invocations>> after it
tickBody(js, ex, cfg, t, throwing) ==
  IF availableSlots(js, cfg) <= 0 THEN <<js, ex>>
  ELSE IF Len(getJobsByState(js, "queued")) = 0 THEN <<js, ex>>
  ELSE startAll(js, ex, toStart(js, cfg), t, throwing)

\* the classification with the exit code tested before the fault codes
finalUpdateExitFirst(result, t) ==
  LET failedWith(code) ==
        [state |-> "failed", finished_at |-> Some(t),
         exit_code |-> result.exitCode, stdout |-> result.stdout,
         stderr |-> result.stderr, error |-> Some(code)]
  IN IF result.exitCode # Null /\ result.exitCode # Some(0)
       THEN failedWith("NON_ZERO_EXIT")
     ELSE IF result.errorCode = Some("TIMEOUT") THEN failedWith("TIMEOUT")
     ELSE IF result.errorCode = Some("DOCKER_ERROR") THEN failedWith("DOCKER_ERROR")
     ELSE [state |-> "finished", finished_at |-> Some(t),
           exit_code |-> result.exitCode, stdout |-> result.stdout,
           stderr |-> result.stderr, error |-> Null]

\* the classification failing a result without an exit code, and giving
\* that failure no error
finalUpdateFailsSilently(result, t) ==
  LET failedWith(code) ==
        [state |-> "failed", finished_at |-> Some(t),
         exit_code |-> result.exitCode, stdout |-> result.stdout,
         stderr |-> result.stderr, error |-> code]
  IN IF result.errorCode = Some("TIMEOUT") THEN failedWith(Some("TIMEOUT"))
     ELSE IF result.errorCode = Some("DOCKER_ERROR")
       THEN failedWith(Some("DOCKER_ERROR"))
     ELSE IF result.exitCode # Null /\ result.exitCode # Some(0)
       THEN failedWith(Some("NON_ZERO_EXIT"))
     ELSE IF result.exitCode = Null THEN failedWith(Null)
     ELSE [state |-> "finished", finished_at |-> Some(t),
           exit_code |-> result.exitCode, stdout |-> result.stdout,
           stderr |-> result.stderr, error |-> Null]

\* the final update without the exit code
finalUpdateOmitsExitCode(result, t) ==
  LET failedWith(code) ==
        [state |-> "failed", finished_at |-> Some(t),
         stdout |-> result.stdout, stderr |-> result.stderr,
         error |-> Some(code)]
  IN IF result.errorCode = Some("TIMEOUT") THEN failedWith("TIMEOUT")
     ELSE IF result.errorCode = Some("DOCKER_ERROR") THEN failedWith("DOCKER_ERROR")
     ELSE IF result.exitCode # Null /\ result.exitCode # Some(0)
       THEN failedWith("NON_ZERO_EXIT")
     ELSE [state |-> "finished", finished_at |-> Some(t),
           stdout |-> result.stdout, stderr |-> result.stderr, error |-> Null]

\* the classification of _startJob after its await: the final update
finalUpdate(result, t) ==
  LET failedWith(code) ==
        [state |-> "failed", finished_at |-> Some(t),
         exit_code |-> result.exitCode, stdout |-> result.stdout,
         stderr |-> result.stderr, error |-> Some(code)]
  IN IF result.errorCode = Some("TIMEOUT") THEN failedWith("TIMEOUT")
     ELSE IF result.errorCode = Some("DOCKER_ERROR") THEN failedWith("DOCKER_ERROR")
     ELSE IF result.exitCode # Null /\ result.exitCode # Some(0)
       THEN failedWith("NON_ZERO_EXIT")
     ELSE [state |-> "finished", finished_at |-> Some(t),
           exit_code |-> result.exitCode, stdout |-> result.stdout,
           stderr |-> result.stderr, error |-> Null]

\* a completion written to every running record instead of the job's own
resumeWritesRunning(js, e, t) ==
  IF e.result = Null THEN js
  ELSE [k \in 1..Len(js) |->
          IF js[k].state = "running"
          THEN Merge(js[k], finalUpdate(e.result[1], t))
          ELSE js[k]]

\* a completion that records the end of the job and leaves its state alone
resumeKeepsSlot(js, e, t) ==
  IF e.result = Null THEN js
  ELSE updateJob(js, e.job_id, [finished_at |-> Some(t)])

\* _startJob after its await, for the invocation e: the ledger after it.
\* The continuation is a microtask of the callback that resolved the
\* promise, so no other callback runs in between.
resume(js, e, t) ==
  IF e.result = Null THEN js
  ELSE updateJob(js, e.job_id, finalUpdate(e.result[1], t))

\* the continuations of the invocations whose promise is already resolved
\* when _tick returns, in the order of their dispatch
RECURSIVE resumeAll(_, _, _)
resumeAll(js, started, t) ==
  IF started = <<>> THEN js
  ELSE resumeAll(resume(js, Head(started), t), Tail(started), t)

\* a timer tick to the end of its microtasks: <<ledger, invocations>>
tick(js, ex, cfg, t, throwing) ==
  LET after == tickBody(js, ex, cfg, t, throwing)
      started == SubSeq(after[2], Len(ex) + 1, Len(after[2]))
  IN <<resumeAll(after[1], started, t), after[2]>>

\* _tick with the flag cleared at the end of the dispatch loop only, not in
\* a finally block: the early returns leave it set
tickGuardedNoFinally(inProgress, js, ex, cfg, t, throwing) ==
  IF inProgress THEN <<js, ex, inProgress>>
  ELSE IF availableSlots(js, cfg) <= 0 THEN <<js, ex, TRUE>>
  ELSE IF Len(getJobsByState(js, "queued")) = 0 THEN <<js, ex, TRUE>>
  ELSE <<tick(js, ex, cfg, t, throwing)[1], tick(js, ex, cfg, t, throwing)[2],
         FALSE>>

\* _tick from its guard to its finally block: <<ledger, invocations,
\* _tickInProgress>> after it. The flag is set on entry and cleared by
\* finally on every path out of the try block.
tickGuarded(inProgress, js, ex, cfg, t, throwing) ==
  IF inProgress THEN <<js, ex, inProgress>>
  ELSE <<tick(js, ex, cfg, t, throwing)[1], tick(js, ex, cfg, t, throwing)[2],
         FALSE>>

(***************************************************************************)
(* Scheduler.start and Scheduler.stop: <<_intervalHandle, the number of    *)
(* active interval timers>> after the call.                                *)
(***************************************************************************)
\* start without the test of _intervalHandle
startUnguarded(handle, active) == <<Some("interval"), active + 1>>

\* start: setInterval unless a handle is held
start(handle, active) ==
  IF handle # Null THEN <<handle, active>>
  ELSE <<Some("interval"), active + 1>>

\* stop: clearInterval of the handle held, if any
stop(handle, active) ==
  IF handle # Null THEN <<Null, active - 1>>
  ELSE <<handle, active>>

(***************************************************************************)
(* Inputs                                                                  *)
(***************************************************************************)
Images == {<<"img", ":", "1">>}

Runtime(mode, image) == JsObj([mode |-> mode, image |-> image])

Body(version, jobId, runtime) ==
  JsObj([protocol_version |-> version, job_id |-> jobId, runtime |-> runtime])

ValidBodies(ids) ==
  {Body(JsNum(1), JsStr(id), Runtime(JsStr(<<"image">>), JsStr(im))) :
     id \in ids, im \in Images}

\* one body for each validation rule that rejects
InvalidBodies ==
  LET id == JsStr(<<IdNames[1]>>)
      ok == Runtime(JsStr(<<"image">>), JsStr(<<"img", ":", "1">>))
  IN {JsNull,
      Body(JsNum(2), id, ok),
      Body(JsNum(1), JsStr(<<>>), ok),
      Body(JsNum(1), id, Undefined),
      Body(JsNum(1), id, Runtime(JsStr(<<"other">>), JsStr(<<"img", ":", "1">>))),
      Body(JsNum(1), id, Runtime(JsStr(<<"build">>), JsStr(<<"img", ":", "1">>))),
      Body(JsNum(1), id, Runtime(JsStr(<<"image">>), JsStr(<<>>)))}

Bodies == ValidBodies(Ids) \cup InvalidBodies

\* the exit code of the 'exit' event: null when a signal ended the child
ExitCodes == {Some(0), Some(1), Null}

NoResponse == Response("-", 0, JsNull, "-", Null, Null)

(***************************************************************************)
(* The state after index.js has loaded the configuration and constructed   *)
(* the store and the scheduler.                                            *)
(***************************************************************************)
Init ==
  /\ jobs = <<>>
  /\ config \in {[maxConcurrentJobs |-> n] : n \in 0..MaxConcurrent}
  /\ intervalHandle = Null
  /\ intervals = 0
  /\ tickInProgress = FALSE
  /\ execs = <<>>
  /\ now = 1
  /\ resp = NoResponse
  /\ OutsideInit

\* what the environment has done so far, against the bounds
RECURSIVE chunksWritten(_)
chunksWritten(ex) ==
  IF ex = <<>> THEN 0
  ELSE Len(Head(ex).stdout) + Len(Head(ex).stderr) + chunksWritten(Tail(ex))

isFault(e) ==
  /\ e.result # Null
  /\ (e.result[1].errorCode # Null \/ e.result[1].exitCode # Some(0))

faults(ex) == Cardinality({i \in 1..Len(ex) : isFault(ex[i])})

\* a handler's response leaves before the event loop runs the next callback
idle == resp = NoResponse

Send ==
  /\ ~idle
  /\ resp' = NoResponse
  /\ UNCHANGED <<jobs, config, intervalHandle, intervals, tickInProgress, execs, now, outside>>

\* time passes
AdvanceClock ==
  /\ idle
  /\ now < MaxClock
  /\ now' = now + 1
  /\ UNCHANGED <<jobs, config, intervalHandle, intervals, tickInProgress, execs, resp, outside>>

\* Scheduler.start, called once by index.js
Start ==
  /\ idle
  /\ intervalHandle = Null
  /\ intervalHandle' = start(intervalHandle, intervals)[1]
  /\ intervals' = start(intervalHandle, intervals)[2]
  /\ UNCHANGED <<jobs, config, tickInProgress, execs, now, resp, outside>>

\* POST /jobs
PostJobs(job) ==
  /\ idle
  /\ jobs' = postJobs(jobs, config, job, now).jobs
  /\ resp' = [postJobs(jobs, config, job, now).resp EXCEPT !.request = job]
  /\ UNCHANGED <<config, intervalHandle, intervals, tickInProgress, execs, now, outside>>

\* GET /jobs/:job_id
GetJob(jobId) ==
  /\ idle
  /\ resp' = getJobStatus(jobs, jobId)
  /\ UNCHANGED <<jobs, config, intervalHandle, intervals, tickInProgress, execs, now, outside>>

\* DELETE /jobs/:job_id
DeleteJob(jobId) ==
  /\ idle
  /\ jobs' = deleteJob(jobs, jobId, now).jobs
  /\ resp' = deleteJob(jobs, jobId, now).resp
  /\ UNCHANGED <<config, intervalHandle, intervals, tickInProgress, execs, now, outside>>

\* Scheduler._tick, fired by the interval timer; spawn() throws for the
\* jobs of `throwing`
Tick(throwing) ==
  /\ idle
  /\ intervals > 0
  /\ throwing # {} => faults(execs) + Cardinality(throwing) <= MaxFaults
  /\ LET after == tickGuarded(tickInProgress, jobs, execs, config, now, throwing)
     IN /\ jobs' = after[1]
        /\ execs' = after[2]
        /\ tickInProgress' = after[3]
  /\ UNCHANGED <<config, intervalHandle, intervals, now, resp, outside>>

\* a 'data' event of the child's stdout or stderr; after the promise is
\* resolved the text it appends to is read by nothing
ChildData(i, stream) ==
  /\ idle
  /\ execs[i].spawned /\ ~execs[i].finished
  /\ chunksWritten(execs) < MaxChunks
  /\ execs' = [execs EXCEPT ![i][stream] = Append(@, "data")]
  /\ UNCHANGED <<jobs, config, intervalHandle, intervals, tickInProgress, now, resp, outside>>

\* the 'exit' event of the child, and _startJob resuming on its result if
\* this event resolved the promise; the event also arrives after the
\* promise was resolved (the exit of a child killed by the timeout)
ChildExit(i, code) ==
  /\ idle
  /\ execs[i].spawned
  /\ (~execs[i].finished /\ code # Some(0)) => faults(execs) < MaxFaults
  /\ execs' = [execs EXCEPT ![i] = onExit(@, code)]
  /\ jobs' = IF execs[i].result # Null THEN jobs
              ELSE resume(jobs, onExit(execs[i], code), now)
  /\ UNCHANGED <<config, intervalHandle, intervals, tickInProgress, now, resp, outside>>

\* the 'error' event of the child, and _startJob resuming on its result if
\* this event resolved the promise; the event also arrives after the
\* promise was resolved
ChildError(i) ==
  /\ idle
  /\ execs[i].spawned
  /\ ~execs[i].finished => faults(execs) < MaxFaults
  /\ execs' = [execs EXCEPT ![i] = onError(@)]
  /\ jobs' = IF execs[i].result # Null THEN jobs
              ELSE resume(jobs, onError(execs[i]), now)
  /\ UNCHANGED <<config, intervalHandle, intervals, tickInProgress, now, resp, outside>>

\* the timeout timer fires, and _startJob resumes on its result
Timeout(i) ==
  /\ idle
  /\ execs[i].timer
  /\ ~execs[i].finished => faults(execs) < MaxFaults
  /\ execs' = [execs EXCEPT ![i] = onTimeout(@)]
  /\ jobs' = IF execs[i].result # Null THEN jobs
              ELSE resume(jobs, onTimeout(execs[i]), now)
  /\ UNCHANGED <<config, intervalHandle, intervals, tickInProgress, now, resp, outside>>

\* the jobs the next tick would select
selectedIds == {toStart(jobs, config)[k].job_id : k \in 1..Len(toStart(jobs, config))}

Submit == \E job \in Bodies : PostJobs(job)

Lookup == \E jobId \in Ids : GetJob(jobId)

Cancel == \E jobId \in Ids : DeleteJob(jobId)

TimerTick == \E throwing \in SUBSET selectedIds : Tick(throwing)

Data == \E i \in 1..Len(execs), stream \in {"stdout", "stderr"} : ChildData(i, stream)

Exit == \E i \in 1..Len(execs), code \in ExitCodes : ChildExit(i, code)

Error == \E i \in 1..Len(execs) : ChildError(i)

TimerFires == \E i \in 1..Len(execs) : Timeout(i)

(***************************************************************************)
(* Spec: the API and the lifecycle. Every kind of request body, a few      *)
(* jobs, one reading of the clock, containers that write no output.        *)
(***************************************************************************)
Next ==
  \/ Send
  \/ Start
  \/ Submit
  \/ Lookup
  \/ Cancel
  \/ TimerTick
  \/ Exit
  \/ Error
  \/ TimerFires

Spec == Init /\ [][Next]_vars

(***************************************************************************)
(* SpecSched: the scheduler under load. More jobs than in Spec, all valid, *)
(* submitted to a started scheduler.                                       *)
(***************************************************************************)
InitSched ==
  /\ jobs = <<>>
  /\ config \in {[maxConcurrentJobs |-> n] : n \in 0..MaxConcurrent}
  /\ intervalHandle = Some("interval")
  /\ intervals = 1
  /\ tickInProgress = FALSE
  /\ execs = <<>>
  /\ now = 1
  /\ resp = NoResponse
  /\ OutsideInit

SchedBodies == ValidBodies(IdSet(SchedIds))

SubmitSched == \E job \in SchedBodies : PostJobs(job)

CancelSched == \E jobId \in IdSet(SchedIds) : DeleteJob(jobId)

NextSched ==
  \/ Send
  \/ SubmitSched
  \/ CancelSched
  \/ TimerTick
  \/ Exit
  \/ Error
  \/ TimerFires

SpecSched == InitSched /\ [][NextSched]_vars

(***************************************************************************)
(* SpecExec: one execution in full. A single valid job on a started        *)
(* scheduler, while the clock advances and the container writes output.    *)
(***************************************************************************)
ExecBodies == ValidBodies(IdSet(1))

SubmitExec == \E job \in ExecBodies : PostJobs(job)

CancelExec == \E jobId \in IdSet(1) : DeleteJob(jobId)

NextExec ==
  \/ Send
  \/ AdvanceClock
  \/ SubmitExec
  \/ CancelExec
  \/ TimerTick
  \/ Data
  \/ Exit
  \/ Error
  \/ TimerFires

SpecExec == InitSched /\ [][NextExec]_vars

(***************************************************************************)
(* SpecValidate: the admission path over every shape of body and over      *)
(* configurations with an image allow-list. An image here is spelled       *)
(* character by character: "a:1" is <<"a", ":", "1">>.                     *)
(***************************************************************************)
ValImages ==
  {<<"a", ":", "1">>, <<"a", ":", "2">>, <<"a", "b", ":", "1">>, <<"a">>,
   <<"a", ":", "*">>}

ValPatterns ==
  {<<"a", ":", "1">>, <<"a", ":", "*">>, <<"a">>, <<"a", "b", ":", "*">>,
   <<":", "*">>}

ValRuntimes ==
  {Runtime(mode, image) :
     mode \in {JsStr(<<"image">>), JsStr(<<"build">>), JsStr(<<"other">>), Undefined},
     image \in {JsStr(im) : im \in ValImages} \cup {JsStr(<<>>), JsNum(7), Undefined}}
    \cup {Undefined, JsStr(<<"image">>)}

ValBodies ==
  {Body(version, jobId, runtime) :
     version \in {JsNum(1), JsNum(2), JsStr(<<"1">>), Undefined},
     jobId \in {JsStr(<<IdNames[1]>>), JsStr(<<>>), JsNum(5), Undefined},
     runtime \in ValRuntimes}
    \cup {JsNull, Undefined, JsStr(<<"a">>), JsNum(0)}

\* the allow-lists of at most MaxPatterns patterns
AllowLists == UNION {[1..n -> ValPatterns] : n \in 0..MaxPatterns}

\* allowedImages absent, empty, or a list of patterns
ValConfigs ==
  {[maxConcurrentJobs |-> MaxConcurrent]}
    \cup {[maxConcurrentJobs |-> MaxConcurrent, allowedImages |-> l] :
            l \in AllowLists}

InitValidate ==
  /\ jobs = <<>>
  /\ config \in ValConfigs
  /\ intervalHandle = Null
  /\ intervals = 0
  /\ tickInProgress = FALSE
  /\ execs = <<>>
  /\ now = 1
  /\ resp = NoResponse
  /\ OutsideInit

SubmitValidate == \E job \in ValBodies : PostJobs(job)

NextValidate ==
  \/ Send
  \/ SubmitValidate

SpecValidate == InitValidate /\ [][NextValidate]_vars

(***************************************************************************)
(* SpecBackend: the scheduler and the execution backend on a ledger whose  *)
(* records were created by createJob directly, with job objects that the   *)
(* admission path would not have let through.                              *)
(***************************************************************************)
\* job objects for createJob: runtime.image a string, "", a number or
\* missing, no runtime, and no job object at all
BackendBodies ==
  {Body(JsNum(1), JsStr(<<"x">>), Runtime(JsStr(<<"image">>), im)) :
     im \in {JsStr(<<"img", ":", "1">>), JsStr(<<>>), JsNum(7), Undefined}}
    \cup {Body(JsNum(1), JsStr(<<"x">>), Undefined), JsNull}

InitBackend ==
  /\ jobs \in {[i \in 1..NumIds |-> NewRecord(<<IdNames[i]>>, b[i], 1)] :
                 b \in [1..NumIds -> BackendBodies]}
  /\ config \in {[maxConcurrentJobs |-> n] : n \in 0..MaxConcurrent}
  /\ intervalHandle = Some("interval")
  /\ intervals = 1
  /\ tickInProgress = FALSE
  /\ execs = <<>>
  /\ now = 1
  /\ resp = NoResponse
  /\ OutsideInit

NextBackend ==
  \/ TimerTick
  \/ Data
  \/ Exit
  \/ Error
  \/ TimerFires

SpecBackend == InitBackend /\ [][NextBackend]_vars

(***************************************************************************)
(* SpecClassify: _startJob on whatever result object its backend resolves  *)
(* with. The ledger holds one job, the scheduler dispatches it, and the    *)
(* pending invocation is resolved with any combination of exit code, fault *)
(* code and output.                                                        *)
(***************************************************************************)
BackendResults ==
  {Result(exitCode, stdout, stderr, errorCode) :
     exitCode \in {Null, Some(0), Some(1), Some(2)},
     stdout \in {<<>>, <<"data">>},
     stderr \in {<<>>, <<"data">>},
     errorCode \in {Null, Some("TIMEOUT"), Some("DOCKER_ERROR")}}

InitClassify ==
  /\ jobs \in {<<NewRecord(<<IdNames[1]>>, b, 1)>> : b \in ExecBodies}
  /\ config \in {[maxConcurrentJobs |-> n] : n \in 0..MaxConcurrent}
  /\ intervalHandle = Some("interval")
  /\ intervals = 1
  /\ tickInProgress = FALSE
  /\ execs = <<>>
  /\ now = 1
  /\ resp = NoResponse
  /\ OutsideInit

\* the promise of invocation i resolves with `result`, and _startJob
\* resumes on it
Resolved(i, result) ==
  /\ execs[i].result = Null
  /\ execs' = [execs EXCEPT ![i] = [@ EXCEPT !.finished = TRUE, !.timer = FALSE,
                                               !.result = Some(result)]]
  /\ jobs' = resume(jobs, [execs[i] EXCEPT !.result = Some(result)], now)
  /\ UNCHANGED <<config, intervalHandle, intervals, tickInProgress, now, resp, outside>>

Dispatch == Tick({})

Resolve == \E result \in BackendResults : \E i \in 1..Len(execs) : Resolved(i, result)

NextClassify ==
  \/ AdvanceClock
  \/ Dispatch
  \/ Resolve

SpecClassify == InitClassify /\ [][NextClassify]_vars

(***************************************************************************)
(* SpecTimed: jobs submitted at different times to a started scheduler, so *)
(* that the timestamps of the records tell one tick from another. The     *)
(* containers end by exiting.                                              *)
(***************************************************************************)
TimedBodies == ValidBodies(Ids)

SubmitTimed == \E job \in TimedBodies : PostJobs(job)

NextTimed ==
  \/ Send
  \/ AdvanceClock
  \/ SubmitTimed
  \/ TimerTick
  \/ Exit

SpecTimed == InitSched /\ [][NextTimed]_vars

(***************************************************************************)
(* SpecLive: the requests of Spec on a started scheduler, with the         *)
(* scheduling the program relies on: a response that was built is sent;    *)
(* the interval                                                            *)
(* timer keeps firing however many requests arrive in between; and no     *)
(* container runs for ever.                                                *)
(***************************************************************************)
\* a container that is still running exits
Ends == \E i \in 1..Len(execs) : execs[i].result = Null /\ ChildExit(i, Some(0))

\* how many records of the ledger js are in the given state
count(js, state) == Cardinality({k \in 1..Len(js) : js[k].state = state})

\* what a tick must select now: min(max(maxConcurrentJobs - r, 0), q)
quota ==
  Min(Max(config.maxConcurrentJobs - count(jobs, "running"), 0),
      count(jobs, "queued"))

\* the positions of the first n queued records, in insertion order
firstQueued(n) ==
  {k \in 1..Len(jobs) :
     /\ jobs[k].state = "queued"
     /\ Cardinality({m \in 1..k : jobs[m].state = "queued"}) <= n}

\* the ledger with exactly the records at the positions sel made running
dispatched(sel) ==
  [k \in 1..Len(jobs) |->
     IF k \in sel
     THEN [jobs[k] EXCEPT !.state = "running", !.started_at = Some(now)]
     ELSE jobs[k]]

\* the invocations a tick makes for the first n queued jobs when every
\* one of them has an image and its process is spawned
spawnedFor(n) ==
  [k \in 1..n |->
     [job_id |-> getJobsByState(jobs, "queued")[k].job_id, spawned |-> TRUE,
      finished |-> FALSE, timer |-> TRUE,
      stdin |-> Some(stringify(getJobsByState(jobs, "queued")[k].job)),
      stdout |-> <<>>, stderr |-> <<>>, result |-> Null]]

\* a tick that finds a free slot and a queued job, and every process
\* is spawned: Tick({}) for the jobs the admission path lets through,
\* written without _tick's loop
TickDue ==
  /\ idle
  /\ intervals > 0
  /\ ~tickInProgress
  /\ quota > 0
  /\ jobs' = dispatched(firstQueued(quota))
  /\ execs' = execs \o spawnedFor(quota)
  /\ UNCHANGED <<config, intervalHandle, intervals, tickInProgress, now, resp, outside>>

NextLive ==
  \/ Send
  \/ Submit
  \/ Lookup
  \/ Cancel
  \/ TimerTick
  \/ Exit
  \/ Error
  \/ TimerFires

SpecLive ==
  /\ InitSched /\ [][NextLive]_vars
  /\ WF_vars(Send)
  /\ SF_vars(TickDue)
  /\ SF_vars(Ends)

(***************************************************************************)
(* SpecFrame: the life of a record against the clock. Submission,          *)
(* cancellation, dispatch and a clean exit, with the clock moving between them.    *)
(***************************************************************************)
NextFrame ==
  \/ Send
  \/ AdvanceClock
  \/ SubmitTimed
  \/ Cancel
  \/ TimerTick
  \/ Ends

SpecFrame == InitSched /\ [][NextFrame]_vars

(***************************************************************************)
(* SpecLimits: one job submitted with each kind of value a submitter can   *)
(* give runtime.limits.max_runtime_seconds, on a started scheduler. The    *)
(* container may exit or may run for ever; a response that was built is    *)
(* sent, and a timer that is armed fires.                                  *)
(***************************************************************************)
MaxRuntimes ==
  {JsNull, JsNum(0), JsNum(5), JsNum(-1), JsStr(<<"5">>),
   JsStr(<<"abc">>), JsObj([seconds |-> JsNum(5)])}

RuntimeWith(limits) ==
  JsObj([mode |-> JsStr(<<"image">>), image |-> JsStr(<<"img", ":", "1">>),
         limits |-> limits])

LimitBodies ==
  {Body(JsNum(1), JsStr(<<IdNames[1]>>),
        Runtime(JsStr(<<"image">>), JsStr(<<"img", ":", "1">>)))}
    \cup {Body(JsNum(1), JsStr(<<IdNames[1]>>), RuntimeWith(limits)) :
            limits \in {JsObj(<<>>)}
                         \cup {JsObj([max_runtime_seconds |-> v]) : v \in MaxRuntimes}}

SubmitLimits == \E job \in LimitBodies : PostJobs(job)

NextLimits ==
  \/ Send
  \/ SubmitLimits
  \/ TimerTick
  \/ Exit
  \/ TimerFires

SpecLimits ==
  /\ InitSched /\ [][NextLimits]_vars
  /\ WF_vars(Send)
  /\ SF_vars(TimerFires)

(***************************************************************************)
(* SpecStore: a JobStore called directly, with the identifiers of records  *)
(* it holds and of records it does not, and with each partial update the   *)
(* worker writes.                                                          *)
(***************************************************************************)
\* a store just constructed; the scheduler, which the calls do not involve,
\* is not started
InitStore ==
  /\ jobs = <<>>
  /\ config = [maxConcurrentJobs |-> MaxConcurrent]
  /\ intervalHandle = Null
  /\ intervals = 0
  /\ tickInProgress = FALSE
  /\ execs = <<>>
  /\ now = 1
  /\ resp = NoResponse
  /\ OutsideInit

StoreJobs == ValidBodies(IdSet(1))

\* the identifiers of the calls: one more than the store ever holds
StoreIds == IdSet(NumIds + 1)

\* the updates of dispatch, cancellation and completion, written at the
\* last reading of the clock
PartialUpdates ==
  {runningUpdate(MaxClock), cancelUpdate(MaxClock),
   finalUpdate(Result(Some(0), <<"data">>, <<>>, Null), MaxClock),
   finalUpdate(Result(Some(1), <<>>, <<"data">>, Null), MaxClock)}

\* jobStore.createJob(jobId, jobObject), which may throw
CreateJob(jobId, jobObject) ==
  /\ jobs' = IF createJob(jobs, jobId, jobObject, now) = Null THEN jobs
              ELSE createJob(jobs, jobId, jobObject, now)[1]
  /\ call' = [op |-> "createJob", job_id |-> jobId,
               returned |-> IF has(jobs, jobId) THEN Null
                            ELSE Some(NewRecord(jobId, jobObject, now))]
  /\ UNCHANGED <<config, intervalHandle, intervals, tickInProgress, execs, now, resp,
               refused, dashboard>>

\* jobStore.updateJob(jobId, partialUpdate)
UpdateJob(jobId, partialUpdate) ==
  /\ jobs' = updateJob(jobs, jobId, partialUpdate)
  /\ call' = [op |-> "updateJob", job_id |-> jobId,
               partialUpdate |-> partialUpdate,
               returned |-> updateJobResult(jobs, jobId, partialUpdate)]
  /\ UNCHANGED <<config, intervalHandle, intervals, tickInProgress, execs, now, resp,
               refused, dashboard>>

Create == \E jobId \in Ids : \E jobObject \in StoreJobs : CreateJob(jobId, jobObject)

Update ==
  \E jobId \in StoreIds : \E partialUpdate \in PartialUpdates :
    UpdateJob(jobId, partialUpdate)

NextStore ==
  \/ Create
  \/ Update

SpecStore == InitStore /\ [][NextStore]_vars

(***************************************************************************)
(* SpecRetry: submitters that send a body again after a rejection. Every   *)
(* kind of body on a started scheduler, with the identifiers of the        *)
(* rejected bodies kept as history.                                        *)
(***************************************************************************)
\* POST /jobs, and the history of rejections
PostJobsNoted(job) ==
  /\ idle
  /\ jobs' = postJobs(jobs, config, job, now).jobs
  /\ resp' = [postJobs(jobs, config, job, now).resp EXCEPT !.request = job]
  /\ refused' = IF validateJobRequest(job, config) # Null
                    /\ jobIdOrNull(job)[1] = "string"
                 THEN refused \cup {jobIdOrNull(job)[2]}
                 ELSE refused
  /\ UNCHANGED <<config, intervalHandle, intervals, tickInProgress, execs, now, call,
               dashboard>>

SubmitNoted == \E job \in Bodies : PostJobsNoted(job)

NextRetry ==
  \/ Send
  \/ SubmitNoted
  \/ Cancel
  \/ TimerTick
  \/ Ends

SpecRetry == InitSched /\ [][NextRetry]_vars

(***************************************************************************)
(* SpecStartStop: a scheduler whose start and stop are called in any       *)
(* order, any number of times, while jobs are submitted and run.           *)
(***************************************************************************)
\* scheduler.start(), with the call and the one before it noted
CallStart ==
  /\ idle
  /\ intervalHandle' = start(intervalHandle, intervals)[1]
  /\ intervals' = start(intervalHandle, intervals)[2]
  /\ call' = [op |-> "start", previous |-> call.op]
  /\ UNCHANGED <<jobs, config, tickInProgress, execs, now, resp, refused,
               dashboard>>

\* scheduler.stop(), with the call and the one before it noted
CallStop ==
  /\ idle
  /\ intervalHandle' = stop(intervalHandle, intervals)[1]
  /\ intervals' = stop(intervalHandle, intervals)[2]
  /\ call' = [op |-> "stop", previous |-> call.op]
  /\ UNCHANGED <<jobs, config, tickInProgress, execs, now, resp, refused,
               dashboard>>

NextStartStop ==
  \/ Send
  \/ SubmitTimed
  \/ CallStart
  \/ CallStop
  \/ TimerTick
  \/ Ends

SpecStartStop == Init /\ [][NextStartStop]_vars

(***************************************************************************)
(* The dashboard page (dash/public/script.js). An address is its last      *)
(* octet. `d` is the state of the page as a record; each operator gives    *)
(* the state after the function of the same name, up to its first await    *)
(* where it has one.                                                       *)
(***************************************************************************)
WorkerIPs == 1..NumWorkers

page ==
  [discoveryTimer |-> discoveryTimer, pollTimer |-> pollTimer,
   activeRunToken |-> activeRunToken, knownWorkerIPs |-> knownWorkerIPs,
   workerState |-> workerState, cards |-> cards, timers |-> timers,
   pending |-> pending, stops |-> stops]

\* an interval timer: its callback's closure, and the run that set it
Timer(kind, settings, runToken, era) ==
  [kind |-> kind, ipStart |-> settings.ipStart, ipEnd |-> settings.ipEnd,
   missedThreshold |-> settings.missedThreshold, runToken |-> runToken,
   era |-> era]

\* an awaited fetch: the addresses asked, the closure of the function that
\* awaits, and the run that started it
Fetch(kind, ips, runToken, missedThreshold, era) ==
  [kind |-> kind, ips |-> ips, runToken |-> runToken,
   missedThreshold |-> missedThreshold, era |-> era]

\* validateSettings, for settings whose prefix and intervals are valid: the
\* message, or Null
validateSettings(settings) ==
  IF settings.ipStart < 0 \/ settings.ipStart > 255
     \/ settings.ipEnd < 0 \/ settings.ipEnd > 255
  THEN Some("Start/End must be within 0..255")
  ELSE IF settings.ipStart > settings.ipEnd THEN Some("Start must be <= End")
  ELSE Null

\* generateIpRange: the addresses, whose order the callers do not use
generateIpRange(ipStart, ipEnd) == ipStart..ipEnd

\* workerState.get(ip) ?? { missCount: 0 }
missCount(ws, ip) == IF ip \in DOMAIN ws THEN ws[ip] ELSE 0

\* noteWorkerOk leaving the count as it is
noteWorkerOkKeepsCount(ws, ip) ==
  [k \in DOMAIN ws \cup {ip} |-> IF k = ip THEN missCount(ws, ip) ELSE ws[k]]

noteWorkerOk(ws, ip) ==
  [k \in DOMAIN ws \cup {ip} |-> IF k = ip THEN 0 ELSE ws[k]]

noteWorkerMiss(ws, ip) ==
  [k \in DOMAIN ws \cup {ip} |-> IF k = ip THEN missCount(ws, ip) + 1 ELSE ws[k]]

\* updateWorkerCard: data is "error" or "data"; no card, no change
updateWorkerCard(cs, ip, data) ==
  IF ip \notin DOMAIN cs THEN cs
  ELSE [cs EXCEPT ![ip] = IF data = "error" THEN "offline" ELSE "online"]

ensureWorkerCard(cs, ip) ==
  IF ip \in DOMAIN cs THEN cs
  ELSE [k \in DOMAIN cs \cup {ip} |-> IF k = ip THEN "loading" ELSE cs[k]]

\* stopDashboard leaving the run token as it is
stopDashboardKeepsToken(d) ==
  [d EXCEPT !.timers = (@ \ (IF d.discoveryTimer = Null THEN {}
                              ELSE {d.discoveryTimer[1]}))
                         \ (IF d.pollTimer = Null THEN {} ELSE {d.pollTimer[1]}),
            !.discoveryTimer = Null,
            !.pollTimer = Null,
            !.stops = @ + 1]

stopDashboard(d) ==
  [d EXCEPT !.timers = (@ \ (IF d.discoveryTimer = Null THEN {}
                              ELSE {d.discoveryTimer[1]}))
                         \ (IF d.pollTimer = Null THEN {} ELSE {d.pollTimer[1]}),
            !.discoveryTimer = Null,
            !.pollTimer = Null,
            !.activeRunToken = @ + 1,
            !.stops = @ + 1]

\* kickOffDiscovery: one probe for each address of the list, kept together
\* as the addresses still to answer
kickOffDiscovery(d, ipList, runToken, era) ==
  IF ipList = {} THEN d
  ELSE [d EXCEPT !.pending = @ \cup {Fetch("probe", ipList, runToken, 0, era)}]

\* poll, to its await
poll(d, missedThreshold, runToken, era) ==
  IF runToken # d.activeRunToken THEN d
  ELSE IF d.knownWorkerIPs = {} THEN d
  ELSE [d EXCEPT !.pending = @ \cup {Fetch("poll", d.knownWorkerIPs, runToken,
                                          missedThreshold, era)}]

startDashboard(d, settings) ==
  LET stopped == stopDashboard(d) IN
  IF validateSettings(settings) # Null THEN stopped
  ELSE LET run == [stopped EXCEPT !.activeRunToken = @ + 1]
           runToken == run.activeRunToken
           era == run.stops
           discoveryT == Timer("discovery", settings, runToken, era)
           pollT == Timer("poll", settings, runToken, era)
           discovering ==
             [kickOffDiscovery(run, generateIpRange(settings.ipStart, settings.ipEnd),
                               runToken, era)
                EXCEPT !.discoveryTimer = Some(discoveryT),
                       !.timers = @ \cup {discoveryT}]
       IN [poll(discovering, settings.missedThreshold, runToken, era)
             EXCEPT !.pollTimer = Some(pollT), !.timers = @ \cup {pollT}]

\* the rest of kickOffDiscovery's async function, for the probe of ip
\* among the probes p: found is whether probeWorkerOnce returned data
probed(d, p, ip, found) ==
  IF p.runToken # d.activeRunToken THEN d
  ELSE IF ~found THEN d
  ELSE [d EXCEPT !.knownWorkerIPs = @ \cup {ip},
                 !.cards = updateWorkerCard(
                             IF ip \in d.knownWorkerIPs THEN @
                             ELSE ensureWorkerCard(@, ip), ip, "data")]

\* the rest of poll, for the awaited results: failed are the addresses
\* whose result has r.error
polled(d, p, failed) ==
  LET counts ==
        [k \in DOMAIN d.workerState \cup p.ips |->
           IF k \notin p.ips THEN d.workerState[k]
           ELSE IF k \in failed THEN noteWorkerMiss(d.workerState, k)[k]
           ELSE noteWorkerOk(d.workerState, k)[k]]
      shown ==
        [k \in DOMAIN d.cards |->
           IF k \notin p.ips THEN d.cards[k]
           ELSE IF k \in failed
             THEN IF counts[k] >= p.missedThreshold
                  THEN updateWorkerCard(d.cards, k, "error")[k]
                  ELSE d.cards[k]
           ELSE updateWorkerCard(d.cards, k, "data")[k]]
  IN IF p.runToken # d.activeRunToken THEN d
     ELSE [d EXCEPT !.workerState = counts, !.cards = shown]

\* the rest of bootstrapKnownWorkersOnce
bootstrapped(d, p, failed) ==
  [d EXCEPT !.cards =
     [k \in DOMAIN d.cards |->
        IF k \notin p.ips THEN d.cards[k]
        ELSE updateWorkerCard(d.cards, k, IF k \in failed THEN "error" ELSE "data")[k]]]

\* clearWorkersUi
clearWorkersUi(d) == [d EXCEPT !.knownWorkerIPs = {}, !.cards = <<>>]

(***************************************************************************)
(* SpecDash: the page with its buttons clicked in any order, its timers    *)
(* firing, and each awaited fetch answered or not. No worker is modelled   *)
(* beside it: the workers are the answers.                                 *)
(***************************************************************************)
\* the settings of the page: a scan from address 1, to address 0 in the
\* settings that validateSettings refuses
DashSettings ==
  [ipStart : {1}, ipEnd : 0..NumWorkers, missedThreshold : {1, MaxThreshold}]

StoredIPs == SUBSET WorkerIPs

workerProcess ==
  <<jobs, config, intervalHandle, intervals, tickInProgress, execs, now, resp,
    call, refused>>

\* the page in state d, within the bounds
Becomes(d) ==
  /\ d.activeRunToken <= MaxToken
  /\ Cardinality(d.pending) <= MaxPending
  /\ discoveryTimer' = d.discoveryTimer
  /\ pollTimer' = d.pollTimer
  /\ activeRunToken' = d.activeRunToken
  /\ knownWorkerIPs' = d.knownWorkerIPs
  /\ workerState' = d.workerState
  /\ cards' = d.cards
  /\ timers' = d.timers
  /\ pending' = d.pending
  /\ stops' = d.stops
  /\ UNCHANGED workerProcess

\* DOMContentLoaded: the addresses of localStorage get their cards, the
\* bootstrap fetch starts, the buttons are wired, startDashboard runs
DomContentLoaded(stored, settings) ==
  /\ ~loaded
  /\ loaded' = TRUE
  /\ Becomes(startDashboard(
       [page EXCEPT !.knownWorkerIPs = stored,
                    !.cards = [ip \in stored |-> "loading"],
                    !.pending = IF stored = {} THEN {}
                                ELSE {Fetch("bootstrap", stored, 0, 0, 0)}],
       settings))
  /\ UNCHANGED failedPolls

StartClicked(settings) ==
  /\ loaded
  /\ Becomes(startDashboard(page, settings))
  /\ UNCHANGED <<loaded, failedPolls>>

StopClicked ==
  /\ loaded
  /\ Becomes(stopDashboard(page))
  /\ UNCHANGED <<loaded, failedPolls>>

ClearClicked ==
  /\ loaded
  /\ Becomes(clearWorkersUi(page))
  /\ UNCHANGED <<loaded, failedPolls>>

\* the discovery timer t fires
DiscoveryTicks(t) ==
  /\ t.kind = "discovery"
  /\ Becomes(kickOffDiscovery(page, generateIpRange(t.ipStart, t.ipEnd),
                              t.runToken, t.era))
  /\ UNCHANGED <<loaded, failedPolls>>

\* the poll timer t fires
PollTicks(t) ==
  /\ t.kind = "poll"
  /\ Becomes(poll(page, t.missedThreshold, t.runToken, t.era))
  /\ UNCHANGED <<loaded, failedPolls>>

\* probeWorkerOnce returns for the probe of ip among the probes p
ProbeReturns(p, ip, found) ==
  /\ p.kind = "probe"
  /\ Becomes(probed([page EXCEPT !.pending =
                       (@ \ {p}) \cup (IF p.ips = {ip} THEN {}
                                        ELSE {[p EXCEPT !.ips = @ \ {ip}]})],
                    p, ip, found))
  /\ UNCHANGED <<loaded, failedPolls>>

\* every fetchWorkerData of poll p has returned
PollReturns(p, failed) ==
  /\ p.kind = "poll"
  /\ \A ip \in failed : missCount(workerState, ip) < MaxMisses
  /\ Becomes(polled([page EXCEPT !.pending = @ \ {p}], p, failed))
  /\ failedPolls' =
       IF p.runToken # activeRunToken THEN failedPolls
       ELSE [k \in DOMAIN failedPolls \cup p.ips |->
               IF k \notin p.ips THEN failedPolls[k]
               ELSE IF k \in failed THEN missCount(failedPolls, k) + 1
               ELSE 0]
  /\ UNCHANGED loaded

\* every fetchWorkerData of the bootstrap has returned
BootstrapReturns(p, failed) ==
  /\ p.kind = "bootstrap"
  /\ Becomes(bootstrapped([page EXCEPT !.pending = @ \ {p}], p, failed))
  /\ UNCHANGED <<loaded, failedPolls>>

Loads == \E stored \in StoredIPs : \E settings \in DashSettings :
           DomContentLoaded(stored, settings)

StartClick == \E settings \in DashSettings : StartClicked(settings)

DiscoveryTimer == \E t \in timers : DiscoveryTicks(t)

PollTimer == \E t \in timers : PollTicks(t)

Probe == \E p \in pending : \E ip \in p.ips : \E found \in BOOLEAN :
           ProbeReturns(p, ip, found)

Poll == \E p \in pending : \E failed \in SUBSET p.ips : PollReturns(p, failed)

Bootstrap == \E p \in pending : \E failed \in SUBSET p.ips : BootstrapReturns(p, failed)

NextDash ==
  \/ Loads
  \/ StartClick
  \/ StopClicked
  \/ ClearClicked
  \/ DiscoveryTimer
  \/ PollTimer
  \/ Probe
  \/ Poll
  \/ Bootstrap

SpecDash == InitStore /\ [][NextDash]_vars

(***************************************************************************)
(* Properties                                                              *)
(***************************************************************************)
Records == {jobs[i] : i \in 1..Len(jobs)}

invocationsOf(jobId) == {i \in 1..Len(execs) : execs[i].job_id = jobId}

\* C1. Concurrency ceiling: the number of records in state running never
\* exceeds maxConcurrentJobs.
ConcurrencyCeiling ==
  Cardinality({i \in 1..Len(jobs) : jobs[i].state = "running"})
    <= config.maxConcurrentJobs

\* every slot is taken while a job still waits
CeilingReached ==
  /\ config.maxConcurrentJobs = MaxConcurrent
  /\ Cardinality({i \in 1..Len(jobs) : jobs[i].state = "running"}) = MaxConcurrent
  /\ \E r \in Records : r.state = "queued"

\* C2. FIFO dispatch: positions in the ledger are admission order; no
\* record is queued while a record admitted after it has been dispatched,
\* so no step dispatches a job past an older job that still waits.
FifoDispatch ==
  \A i, j \in 1..Len(jobs) :
    (i < j /\ jobs[j].started_at # Null) => jobs[i].state # "queued"

\* a job runs although the job admitted before it never did: that one was
\* cancelled
DispatchedPastCancelled ==
  /\ Len(jobs) >= 2
  /\ jobs[1].error = Some("CANCELLED")
  /\ jobs[2].state = "running"

\* C3. Lifecycle: a record enters the ledger queued, and every later
\* change of its state is queued->running, running->finished,
\* running->failed or queued->failed; finished and failed are final.
Transitions ==
  {<<"queued", "running">>, <<"running", "finished">>,
   <<"running", "failed">>, <<"queued", "failed">>}

Lifecycle ==
  [][/\ Len(jobs') >= Len(jobs)
     /\ \A i \in 1..Len(jobs) :
          /\ jobs'[i].job_id = jobs[i].job_id
          /\ \/ jobs'[i].state = jobs[i].state
             \/ <<jobs[i].state, jobs'[i].state>> \in Transitions
     /\ \A i \in (Len(jobs) + 1)..Len(jobs') : jobs'[i].state = "queued"]_vars

\* a cancel request has just been answered for a finished job, and a failed
\* job is in the ledger too
TerminalChallenged ==
  /\ resp.op = "DELETE" /\ resp.state = "finished"
  /\ \E r \in Records : r.state = "finished" /\ JsStr(r.job_id) = resp.job_id
  /\ \E r \in Records : r.state = "failed" /\ r.started_at # Null

\* C4. Dispatch or cancel, not both: a record cancelled was never started,
\* and executeJob was never called for it.
CancelledNeverDispatched ==
  \A r \in Records :
    r.error = Some("CANCELLED")
      => /\ r.started_at = Null
         /\ invocationsOf(r.job_id) = {}

\* a tick ran after the cancellation: the job admitted after the cancelled
\* one ran to its end, which dispatch in admission order allows only once
\* the older job no longer waits
TickAfterCancel ==
  /\ Len(jobs) >= 2
  /\ jobs[1].error = Some("CANCELLED")
  /\ jobs[2].state = "finished"

\* the step is the handling of DELETE /jobs/jobId
isDelete(jobId) == resp = NoResponse /\ DeleteJob(jobId)

\* C5. Cancelling a queued job: the record becomes failed with error
\* CANCELLED and finished_at set, nothing else of it changes (started_at
\* and exit_code stay null), and the response reports state failed.
CancelQueued ==
  [][\A i \in 1..Len(jobs) :
       (isDelete(jobs[i].job_id) /\ jobs[i].state = "queued")
         => /\ jobs' = [jobs EXCEPT ![i] =
                          [@ EXCEPT !.state = "failed",
                                    !.error = Some("CANCELLED"),
                                    !.finished_at = Some(now)]]
            /\ jobs'[i].started_at = Null
            /\ jobs'[i].exit_code = Null
            /\ resp'.state = "failed"]_vars

\* a cancellation of a queued job has just been answered
CancelledAnswered ==
  /\ resp.op = "DELETE" /\ resp.status = 200
  /\ \E r \in Records : JsStr(r.job_id) = resp.job_id /\ r.error = Some("CANCELLED")

\* C6. Cancelling a running job: the response reports state running and
\* nothing but the response changes: the ledger, the invocation and its
\* timer are as they were, so the job ends as it would have.
CancelRunning ==
  [][\A i \in 1..Len(jobs) :
       (isDelete(jobs[i].job_id) /\ jobs[i].state = "running")
         => /\ resp'.state = "running"
            /\ UNCHANGED <<jobs, execs, config, intervalHandle,
                           tickInProgress, now>>]_vars

\* a cancel request has just been answered for a job whose container is
\* still running
RunningChallenged ==
  /\ resp.op = "DELETE" /\ resp.state = "running"
  /\ \E i \in 1..Len(execs) :
       /\ JsStr(execs[i].job_id) = resp.job_id
       /\ execs[i].spawned /\ ~execs[i].finished

\* the step is the handling of POST /jobs with this body
isPost(job) == resp = NoResponse /\ PostJobs(job)

\* C7. Duplicate submission: a valid body whose job_id has a record, in
\* whatever state, is rejected with JOB_ID_ALREADY_EXISTS and the ledger
\* is unchanged.
DuplicateRejected ==
  [][\A job \in Bodies :
       (/\ isPost(job)
        /\ validateJobRequest(job, config) = Null
        /\ \E r \in Records : JsStr(r.job_id) = Get(job, "job_id"))
         => /\ resp'.accepted = Some(FALSE)
            /\ resp'.state = "rejected"
            /\ resp'.code = Some("JOB_ID_ALREADY_EXISTS")
            /\ jobs' = jobs]_vars

\* a duplicate of a job that already finished has just been rejected
DuplicateOfFinished ==
  /\ resp.code = Some("JOB_ID_ALREADY_EXISTS")
  /\ \E r \in Records : JsStr(r.job_id) = resp.job_id /\ r.state = "finished"

\* C8. Rejections never mutate the ledger: a submission answered with
\* accepted = false leaves the ledger as it was, and no record is ever in
\* state rejected.
RejectionsKeepLedger ==
  /\ [][\A job \in Bodies :
          (isPost(job) /\ resp'.accepted = Some(FALSE)) => jobs' = jobs]_vars
  /\ [](\A r \in Records : r.state # "rejected")

\* a validation rejection has just been answered while the ledger holds
\* records
RejectedWithLedger ==
  /\ resp.op = "POST" /\ resp.status = 400
  /\ resp.code = Some("MISSING_IMAGE")
  /\ Len(jobs) = NumIds

\* C9. No multiple starts: executeJob is called at most once for a job,
\* exactly once for a record that has started and never for one that has
\* not, whatever ticks fire.
NoMultipleStarts ==
  \A r \in Records :
    Cardinality(invocationsOf(r.job_id)) = IF r.started_at = Null THEN 0 ELSE 1

\* with one slot, a second job was dispatched: a tick fired after the
\* first job was recorded and did not start it again
TickAfterFinish ==
  /\ config.maxConcurrentJobs = 1
  /\ Len(execs) = 2
  /\ execs[1].result # Null
  /\ \E r \in Records : r.job_id = execs[1].job_id /\ r.state = "finished"

\* C10. Ledger identity: one record per identifier, no record is ever
\* removed, and a submission is accepted only for an identifier that has
\* no record.
idsOf(js) == {js[i].job_id : i \in 1..Len(js)}

LedgerIdentity ==
  /\ [](Cardinality(idsOf(jobs)) = Len(jobs))
  /\ [][/\ idsOf(jobs) \subseteq idsOf(jobs')
        /\ Len(jobs') >= Len(jobs)
        /\ \A job \in Bodies :
             (isPost(job) /\ resp'.accepted = Some(TRUE))
               => /\ JsStr(CHOOSE id \in idsOf(jobs') \ idsOf(jobs) : TRUE)
                       = Get(job, "job_id")
                  /\ Len(jobs') = Len(jobs) + 1]_vars

\* every identifier has a record and a resubmission has just been rejected
LedgerFull ==
  /\ Len(jobs) = NumIds
  /\ resp.status = 409

\* C11. A finished record always has exit code 0: every outcome other than
\* a zero exit code with no fault, a process that ends without a numeric
\* exit code included, yields failed.
FinishedHasExitZero ==
  \A r \in Records : r.state = "finished" => r.exit_code = Some(0)

\* the record of the job an invocation runs
recordOf(e) == getJob(jobs, e.job_id)[1]

RoundTrip ==
  \A i \in 1..Len(execs) :
    (/\ execs[i].result # Null
     /\ execs[i].result[1].errorCode = Null
     /\ execs[i].result[1].exitCode = Some(0))
      => /\ Get(Get(recordOf(execs[i]).job, "runtime"), "mode") = JsStr(<<"image">>)
         /\ recordOf(execs[i]).state = "finished"
         /\ recordOf(execs[i]).exit_code = Some(0)
         /\ recordOf(execs[i]).error = Null

\* two jobs have made the round trip
RoundTripsMade ==
  /\ Len(execs) = 2
  /\ \A i \in 1..2 : /\ execs[i].result # Null
                     /\ execs[i].result[1].exitCode = Some(0)

\* C14. Single resolution: the first of exit, error and timeout to occur
\* produces the result of an invocation and disarms the timeout timer;
\* from then on no event changes the invocation, its result or the record
\* written from it.
SingleResolution ==
  /\ [](\A i \in 1..Len(execs) :
          execs[i].result # Null
            => /\ ~execs[i].timer
               /\ execs[i].spawned => execs[i].finished
               /\ execs[i].result[1].errorCode
                    \in {Null, Some("TIMEOUT"), Some("DOCKER_ERROR")})
  /\ [][\A i \in 1..Len(execs) :
          execs[i].result # Null
            => /\ execs'[i] = execs[i]
               /\ getJob(jobs', execs[i].job_id) = getJob(jobs, execs[i].job_id)]_vars

\* one invocation was resolved by the timeout, and the exit event of its
\* killed child is still to come; another was resolved by its exit while
\* its timer was armed
ResolvedBothWays ==
  /\ Len(execs) = 2
  /\ \E i \in 1..2 : /\ execs[i].spawned
                     /\ execs[i].result # Null
                     /\ execs[i].result[1].errorCode = Some("TIMEOUT")
  /\ \E i \in 1..2 : /\ execs[i].spawned
                     /\ execs[i].result # Null
                     /\ execs[i].result[1].errorCode = Null

\* runtime.image of the job an invocation runs
imageOf(e) ==
  Get(orEmpty(Get(orEmpty(recordOf(e).job), "runtime")), "image")

hasImage(e) == Truthy(imageOf(e)) /\ TypeOf(imageOf(e)) = "string"

\* C15. A job whose runtime.image is empty or not a string never spawns a
\* process: its invocation is resolved at once with DOCKER_ERROR, arms no
\* timer, and the job is failed with error code DOCKER_ERROR.
NoImageNoProcess ==
  \A i \in 1..Len(execs) :
    ~hasImage(execs[i])
      => /\ ~execs[i].spawned /\ ~execs[i].timer
         /\ execs[i].result # Null
         /\ execs[i].result[1].errorCode = Some("DOCKER_ERROR")
         /\ recordOf(execs[i]).state = "failed"
         /\ recordOf(execs[i]).error = Some("DOCKER_ERROR")

\* a job with the empty string for an image and a job with no job object
\* were both dispatched
ImagelessDispatched ==
  /\ \E i \in 1..Len(execs) : imageOf(execs[i]) = JsStr(<<>>)
  /\ \E i \in 1..Len(execs) : recordOf(execs[i]).job = JsNull

\* the body is what the handler takes for a structured object
isObject(job) == Truthy(job) /\ TypeOf(job) = "object"

\* C16. A body that is an object and whose protocol_version is not the
\* number 1 is rejected with UNSUPPORTED_PROTOCOL_VERSION whatever its
\* other fields are, and no record ever holds such a body.
VersionRejected ==
  /\ (/\ resp.op = "POST"
      /\ isObject(resp.request)
      /\ Get(resp.request, "protocol_version") # JsNum(1))
       => /\ resp.status = 400
          /\ resp.accepted = Some(FALSE)
          /\ resp.state = "rejected"
          /\ resp.code = Some("UNSUPPORTED_PROTOCOL_VERSION")
  /\ \A r \in Records : Get(r.job, "protocol_version") = JsNum(1)

\* the version "1", a string, was rejected for a body whose every other
\* field is valid, and whose identifier has no record
StringVersionRejected ==
  /\ resp.code = Some("UNSUPPORTED_PROTOCOL_VERSION")
  /\ resp.request =
       Body(JsStr(<<"1">>), JsStr(<<IdNames[1]>>),
            Runtime(JsStr(<<"image">>), JsStr(<<"a", ":", "1">>)))
  /\ jobs = <<>>

\* job.f read as the rules of the protocol read it: nothing on a body
\* that is no object
field(job, f) == IF isObject(job) THEN Get(job, f) ELSE Undefined

nonEmptyString(v) == TypeOf(v) = "string" /\ v[2] # <<>>

\* the allow-list as the protocol words it: the image equals a pattern, or
\* a pattern is name:* and the image starts with name:
listed(allowed, image) ==
  \E k \in 1..Len(allowed) :
    \/ image = allowed[k]
    \/ \E n \in 0..(Len(allowed[k]) - 2) :
         /\ allowed[k] = SubSeq(allowed[k], 1, n) \o <<":", "*">>
         /\ Len(image) >= n + 1
         /\ SubSeq(image, 1, n + 1) = SubSeq(allowed[k], 1, n) \o <<":">>

RuleCodes ==
  <<"INVALID_BODY", "UNSUPPORTED_PROTOCOL_VERSION", "MISSING_JOB_ID",
    "MISSING_RUNTIME", "BAD_RUNTIME_MODE", "RUNTIME_NOT_SUPPORTED",
    "MISSING_IMAGE", "IMAGE_NOT_ALLOWED">>

\* rule k of the admission order, each read on its own
ruleFails(k, job, cfg) ==
  LET runtime == field(job, "runtime")
      mode == field(runtime, "mode")
      image == field(runtime, "image")
  IN CASE k = 1 -> ~isObject(job)
       [] k = 2 -> field(job, "protocol_version") # JsNum(1)
       [] k = 3 -> ~nonEmptyString(field(job, "job_id"))
       [] k = 4 -> ~isObject(runtime)
       [] k = 5 -> mode \notin {JsStr(<<"image">>), JsStr(<<"build">>)}
       [] k = 6 -> mode = JsStr(<<"build">>)
       [] k = 7 -> ~nonEmptyString(image)
       [] k = 8 -> /\ "allowedImages" \in DOMAIN cfg
                   /\ cfg.allowedImages # <<>>
                   /\ ~(nonEmptyString(image) /\ listed(cfg.allowedImages, image[2]))

failing(job, cfg) == {k \in 1..8 : ruleFails(k, job, cfg)}

firstFailing(job, cfg) ==
  CHOOSE k \in failing(job, cfg) : \A m \in failing(job, cfg) : k <= m

\* C17. Admission order: the code of a rejection is that of the first rule
\* that fails, in the order of RuleCodes; a body goes on to the creation of
\* its record (accepted, or refused as a duplicate) exactly when no rule
\* fails.
ValidationOrder ==
  resp.op = "POST"
    => IF failing(resp.request, config) # {}
       THEN /\ resp.status = 400
            /\ resp.accepted = Some(FALSE)
            /\ resp.code = Some(RuleCodes[firstFailing(resp.request, config)])
       ELSE \/ resp.status = 202 /\ resp.accepted = Some(TRUE) /\ resp.code = Null
            \/ resp.status = 409 /\ resp.code = Some("JOB_ID_ALREADY_EXISTS")

\* a body without a usable job_id, without a runtime and so without an
\* image was rejected for its job_id
EarliestRuleAnswered ==
  /\ resp.code = Some("MISSING_JOB_ID")
  /\ failing(resp.request, config) = {3, 4, 5, 7}

\* the allow-list is configured and not empty
listConfigured(cfg) == "allowedImages" \in DOMAIN cfg /\ cfg.allowedImages # <<>>

\* runtime.image of a submitted body
requestImage(job) == field(field(job, "runtime"), "image")

\* C18. Image allow-list: a body that passes every earlier rule is
\* rejected with IMAGE_NOT_ALLOWED exactly when an allow-list is configured,
\* is not empty, and lists neither the image itself nor a pattern name:*
\* with the image starting with name: ; with no list or an empty one every
\* non-empty image is admitted.
AllowListRule ==
  /\ (resp.op = "POST" /\ failing(resp.request, config) \cap 1..7 = {})
       => IF /\ listConfigured(config)
             /\ ~listed(config.allowedImages, requestImage(resp.request)[2])
          THEN /\ resp.status = 400
               /\ resp.code = Some("IMAGE_NOT_ALLOWED")
               /\ resp.accepted = Some(FALSE)
          ELSE /\ resp.status \in {202, 409}
               /\ resp.code # Some("IMAGE_NOT_ALLOWED")
  /\ resp.code = Some("IMAGE_NOT_ALLOWED")
       => failing(resp.request, config) \cap 1..7 = {}

\* under the list <<"a:*">> the image "ab:1" has just been rejected
WildcardBoundary ==
  /\ listConfigured(config)
  /\ config.allowedImages = << <<"a", ":", "*">> >>
  /\ resp.code = Some("IMAGE_NOT_ALLOWED")
  /\ requestImage(resp.request) = JsStr(<<"a", "b", ":", "1">>)

\* the step is the handling of GET /jobs/jobId
isGet(jobId) == resp = NoResponse /\ GetJob(jobId)

\* C19. Unknown identifier: a lookup or a cancellation of an identifier
\* that has no record, whether or not a submission of it was rejected
\* before, is answered 404 with state not_found and no error code, and
\* changes neither the ledger nor the executions.
UnknownIsNotFound ==
  [][\A jobId \in Ids :
       (jobId \notin idsOf(jobs) /\ (isGet(jobId) \/ isDelete(jobId)))
         => /\ resp'.status = 404
            /\ resp'.state = "not_found"
            /\ resp'.job_id = JsStr(jobId)
            /\ resp'.code = Null /\ resp'.record = Null
            /\ jobs' = jobs /\ execs' = execs]_vars

\* a lookup has just been answered not_found while the ledger holds the
\* record of another job
NotFoundAnswered ==
  /\ resp.op = "GET" /\ resp.state = "not_found"
  /\ Len(jobs) = 1

\* invocation i is resolved in this step, by an event of its own child or
\* timer
completes(i) ==
  /\ Len(execs') = Len(execs)
  /\ execs[i].result = Null /\ execs'[i].result # Null

changed == {k \in 1..Len(jobs) : k > Len(jobs') \/ jobs'[k] # jobs[k]}

\* the admission path inserts one record, queued, and writes no other
byAdmission ==
  /\ resp'.op = "POST" /\ resp'.accepted = Some(TRUE)
  /\ Len(jobs') = Len(jobs) + 1
  /\ changed = {}
  /\ jobs'[Len(jobs')].state = "queued"

\* the scheduler's dispatch takes queued records to running; a record
\* whose execution is over before the tick returns has its completion
\* written in the same step
byDispatch ==
  /\ resp' = resp
  /\ Len(execs') > Len(execs)
  /\ Len(jobs') = Len(jobs)
  /\ \A k \in changed :
       /\ jobs[k].state = "queued"
       /\ jobs'[k].started_at = Some(now)
       /\ \/ jobs'[k].state = "running"
          \/ /\ jobs'[k].state = "failed"
             /\ \E i \in (Len(execs) + 1)..Len(execs') :
                  /\ execs'[i].job_id = jobs[k].job_id
                  /\ execs'[i].result # Null

\* the scheduler's completion write takes the running record of the
\* invocation resolved in this step to finished or failed
byCompletion ==
  /\ resp' = resp
  /\ Len(jobs') = Len(jobs)
  /\ \E i \in 1..Len(execs) :
       /\ completes(i)
       /\ changed = {IndexOf(jobs, execs[i].job_id)}
       /\ recordOf(execs[i]).state = "running"
       /\ recordOf(execs[i])'.state \in {"finished", "failed"}

\* the cancellation handler takes one queued record to failed with
\* error CANCELLED
byCancellation ==
  /\ resp'.op = "DELETE"
  /\ Len(jobs') = Len(jobs)
  /\ \E k \in 1..Len(jobs) :
       /\ changed = {k}
       /\ jobs[k].state = "queued"
       /\ jobs'[k].state = "failed" /\ jobs'[k].error = Some("CANCELLED")

TickSelection ==
  /\ [](\A throwing \in SUBSET selectedIds :
          LET after == tickBody(jobs, execs, config, now, throwing)[1] IN
          /\ after = dispatched(firstQueued(quota))
          /\ \/ count(after, "queued") = 0
             \/ count(after, "running") = config.maxConcurrentJobs)
  /\ [][Len(execs') > Len(execs)
          => /\ Len(execs') = Len(execs) + quota
             /\ Len(jobs') = Len(jobs)
             /\ \A k \in 1..Len(jobs) :
                  IF k \in firstQueued(quota)
                  THEN jobs'[k].started_at = Some(now)
                  ELSE jobs'[k] = jobs[k]]_vars

\* with one slot and two jobs queued from the start, a tick dispatched the
\* older job and left the younger waiting
OlderOfTwoSelected ==
  /\ config.maxConcurrentJobs = 1
  /\ Len(jobs) = 2 /\ Len(execs) = 1
  /\ jobs[1].state = "running" /\ jobs[2].state = "queued"
  /\ execs[1].job_id = jobs[1].job_id /\ execs[1].result = Null

\* C24. Ticks never overlap and the guard never sticks: between callbacks
\* the in-progress flag is clear, so no tick is ever skipped; _tick leaves
\* it clear on every path (no capacity, no queued job, dispatch, dispatch
\* with spawn() throwing) and dispatches whenever a slot is free and a job
\* waits; and _tick entered with the flag set returns at once, changing
\* nothing.
GuardNeverSticks ==
  /\ ~tickInProgress
  /\ \A throwing \in SUBSET selectedIds :
       LET after == tickGuarded(tickInProgress, jobs, execs, config, now, throwing)
       IN /\ after[3] = FALSE
          /\ quota > 0 <=> Len(after[2]) > Len(execs)
          /\ tickGuarded(TRUE, jobs, execs, config, now, throwing)
               = <<jobs, execs, TRUE>>

\* with one slot, spawn() threw in the tick that dispatched the first job,
\* and a later tick dispatched the next job
DispatchedAfterThrow ==
  /\ config.maxConcurrentJobs = 1
  /\ Len(execs) = 2
  /\ ~execs[1].spawned /\ execs[1].result # Null
  /\ execs[2].spawned

\* the invocations a tick step has added
added == (Len(execs) + 1)..Len(execs')

\* C25. A tick does not wait for job completion: when the synchronous body
\* of a tick ends every record it selected is running, before the
\* completion of any of them is recorded; the tick's step ends with every
\* job whose process was spawned still running and its invocation pending,
\* and leaves the invocations and records of the jobs already executing
\* untouched; and a tick dispatches into the free slots whether or not
\* earlier jobs are still executing.
TickDoesNotWait ==
  /\ [](\A throwing \in SUBSET selectedIds :
          /\ \A id \in selectedIds :
               getJob(tickBody(jobs, execs, config, now, throwing)[1], id)[1].state
                 = "running"
          /\ Len(tick(jobs, execs, config, now, throwing)[2]) = Len(execs) + quota)
  /\ [][/\ \A j \in added :
             execs'[j].spawned
               => /\ execs'[j].result = Null
                  /\ getJob(jobs', execs'[j].job_id)[1].state = "running"
        /\ added # {}
             => \A i \in 1..Len(execs) :
                  /\ execs'[i] = execs[i]
                  /\ recordOf(execs[i])' = recordOf(execs[i])]_vars

\* two jobs are executing at once, dispatched by ticks at different times
DispatchedWhileExecuting ==
  /\ Len(execs) = 2
  /\ \A i \in 1..2 : /\ execs[i].spawned /\ execs[i].result = Null
                     /\ recordOf(execs[i]).state = "running"
  /\ recordOf(execs[1]).started_at = Some(1)
  /\ recordOf(execs[2]).started_at = Some(2)

\* C26. No starvation: with maxConcurrentJobs >= 1, a scheduler that keeps
\* ticking and containers that all come to an end, every job that is
\* queued is eventually dispatched or cancelled, whatever is submitted
\* after it. The tick whose recurrence is assumed, TickDue, is the step
\* _tick takes whenever a slot is free and a job waits.
NoStarvation ==
  /\ [](quota > 0
          => tickGuarded(tickInProgress, jobs, execs, config, now, {})
               = <<dispatched(firstQueued(quota)), execs \o spawnedFor(quota), FALSE>>)
  /\ \A id \in Ids :
       (/\ config.maxConcurrentJobs >= 1
        /\ \E r \in Records : r.job_id = id /\ r.state = "queued")
         ~> (\E r \in Records :
               /\ r.job_id = id
               /\ (r.started_at # Null \/ r.error = Some("CANCELLED")))

\* with one slot, the job submitted second was dispatched after it had
\* waited for the first one to end
WaitedThenDispatched ==
  /\ config.maxConcurrentJobs = 1
  /\ Len(jobs) = 2 /\ Len(execs) = 2
  /\ jobs[1].state \in {"finished", "failed"} /\ jobs[1].started_at # Null
  /\ jobs[2].state = "running"

\* C27. Every dispatched job terminates: a record that is running is
\* eventually finished or failed even if its container never exits,
\* because every spawned process has its timeout armed, whatever
\* max_runtime_seconds the job was submitted with.
EveryDispatchedTerminates ==
  /\ [](\A i \in 1..Len(execs) :
          (execs[i].spawned /\ execs[i].result = Null) => execs[i].timer)
  /\ \A id \in IdSet(1) :
       (\E r \in Records : r.job_id = id /\ r.state = "running")
         ~> (\E r \in Records :
               r.job_id = id /\ r.state \in {"finished", "failed"})

\* C28. Record fields per state: a queued record has no start time, no
\* finish time, no exit code, no error and empty output; a running record
\* has a start time and no finish time, exit code or error; a finished or
\* failed record has a finish time; and a record has a start time exactly
\* when it was dispatched, that is, when executeJob was called for it.
FieldsPerState ==
  \A r \in Records :
    /\ r.state \in {"queued", "running", "finished", "failed"}
    /\ r.created_at # Null
    /\ r.state = "queued"
         => /\ r.started_at = Null /\ r.finished_at = Null
            /\ r.exit_code = Null /\ r.error = Null
            /\ r.stdout = <<>> /\ r.stderr = <<>>
    /\ r.state = "running"
         => /\ r.started_at # Null /\ r.finished_at = Null
            /\ r.exit_code = Null /\ r.error = Null
    /\ r.state \in {"finished", "failed"} => r.finished_at # Null
    /\ r.started_at # Null <=> invocationsOf(r.job_id) # {}

\* the ledger holds a record that failed after it ran and a record that
\* was cancelled before it ran
FailedBothWays ==
  /\ resp = NoResponse
  /\ \E r \in Records : r.state = "failed" /\ r.started_at # Null
  /\ \E r \in Records : r.state = "failed" /\ r.started_at = Null

\* C29. State and error: a record is failed exactly when it has an error;
\* the error of a record is one of CANCELLED, TIMEOUT, DOCKER_ERROR and
\* NON_ZERO_EXIT, never a code of the admission path; CANCELLED is the
\* error of records that never ran and the other three of records that
\* did.
StateErrorConsistency ==
  \A r \in Records :
    /\ r.state = "failed" <=> r.error # Null
    /\ r.error # Null
         => /\ r.error[1] \in {"CANCELLED", "TIMEOUT", "DOCKER_ERROR", "NON_ZERO_EXIT"}
            /\ r.error[1] = "CANCELLED" <=> r.started_at = Null
    /\ r.state \in {"queued", "running", "finished"} => r.error = Null

\* a submission has just been rejected with a code of the admission path
\* while the ledger holds a record that failed with NON_ZERO_EXIT
RejectedBesideFailed ==
  /\ resp.op = "POST" /\ resp.code = Some("BAD_RUNTIME_MODE")
  /\ \E r \in Records : r.error = Some("NON_ZERO_EXIT")

\* C30. The accepted specification is immutable: a record is created with
\* the submitted body as its specification and the body's job_id as its
\* own, no later step removes a record or changes its job_id, created_at
\* or specification, and the text written to a container's standard
\* input is, read back, the specification of the record it runs for, with
\* nothing after it.
SpecificationImmutable ==
  /\ [](\A i \in 1..Len(execs) :
          /\ execs[i].spawned <=> execs[i].stdin # Null
          /\ execs[i].stdin # Null
               => parse(execs[i].stdin[1]) = <<recordOf(execs[i]).job, <<>>>>)
  /\ [][/\ Len(jobs') >= Len(jobs)
        /\ \A i \in 1..Len(jobs) :
             /\ jobs'[i].job_id = jobs[i].job_id
             /\ jobs'[i].created_at = jobs[i].created_at
             /\ jobs'[i].job = jobs[i].job
        /\ \A i \in (Len(jobs) + 1)..Len(jobs') :
             /\ jobs'[i].job \in TimedBodies
             /\ Get(jobs'[i].job, "job_id") = JsStr(jobs'[i].job_id)
             /\ jobs'[i].created_at = Some(now)]_vars

\* one record was cancelled and another has run to its end, its
\* specification written to its container, after the clock moved on from
\* the time they were created
CancelledAndCompletedLater ==
  /\ \E r \in Records : r.error = Some("CANCELLED") /\ r.created_at # Some(now)
  /\ \E i \in 1..Len(execs) :
       /\ execs[i].stdin # Null
       /\ Len(execs[i].stdin[1]) > 2
       /\ recordOf(execs[i]).state \in {"finished", "failed"}
       /\ recordOf(execs[i]).created_at # recordOf(execs[i]).finished_at

\* C31. updateJob is a merge on one record: called with the identifier of
\* a record, it leaves the ledger as long as it was, gives the record the
\* values of the partial update for the fields the update names, keeps
\* the record's other fields and every other record, and returns the
\* merged record; called with an unknown identifier it returns null and
\* leaves the ledger as it was, without a record for that identifier.
UpdateIsMerge ==
  [][call'.op = "updateJob" =>
       LET jobId == call'.job_id
           partialUpdate == call'.partialUpdate
       IN IF has(jobs, jobId)
          THEN /\ Len(jobs') = Len(jobs)
               /\ \A i \in 1..Len(jobs) :
                    IF jobs[i].job_id = jobId
                    THEN /\ DOMAIN jobs'[i] = DOMAIN jobs[i]
                         /\ \A f \in DOMAIN partialUpdate :
                              jobs'[i][f] = partialUpdate[f]
                         /\ \A f \in DOMAIN jobs[i] \ DOMAIN partialUpdate :
                              jobs'[i][f] = jobs[i][f]
                         /\ call'.returned = Some(jobs'[i])
                    ELSE jobs'[i] = jobs[i]
          ELSE /\ jobs' = jobs
               /\ ~has(jobs', jobId)
               /\ call'.returned = Null]_vars

\* an update was dropped for an identifier the store does not hold, after
\* an update was merged into one of two records and left the other queued
DroppedBesideMerged ==
  /\ call.op = "updateJob" /\ call.returned = Null
  /\ ~has(jobs, call.job_id)
  /\ Len(jobs) = 2
  /\ jobs[1].state # "queued" /\ jobs[2].state = "queued"

\* C32. A submission answered with 202 has added exactly one record, at
\* the end of the ledger and for an identifier the ledger did not hold:
\* queued, created at the time of the request, with started_at,
\* finished_at, exit_code and error null, stdout and stderr empty, and the
\* submitted body as its specification; the records that were there are
\* unchanged, and the response says accepted = true, state "queued" and
\* the new identifier.
AdmissionCreatesOne ==
  [][resp # resp' /\ resp'.op = "POST" /\ resp'.status = 202 =>
       /\ Len(jobs') = Len(jobs) + 1
       /\ SubSeq(jobs', 1, Len(jobs)) = jobs
       /\ ~has(jobs, jobs'[Len(jobs')].job_id)
       /\ jobs'[Len(jobs')] =
            [job_id |-> resp'.job_id[2], state |-> "queued",
             created_at |-> Some(now), started_at |-> Null,
             finished_at |-> Null, exit_code |-> Null, stdout |-> <<>>,
             stderr |-> <<>>, error |-> Null, job |-> resp'.request]
       /\ resp'.accepted = Some(TRUE)
       /\ resp'.state = "queued"
       /\ resp'.code = Null]_vars

\* a submission has just been accepted, later than the first, whose record
\* is no longer queued
AcceptedBesideEarlier ==
  /\ resp.op = "POST" /\ resp.status = 202
  /\ Len(jobs) = 2
  /\ jobs[1].state # "queued"
  /\ jobs[2].job_id = resp.job_id[2]
  /\ jobs[2].created_at # jobs[1].created_at

\* C33. getJobsByState keeps the order of creation: no step changes the
\* order of two records in the ledger or puts a new record before an old
\* one, and in every state the list returned for a state holds exactly the
\* records of that state, each once, in the order of the ledger.
ListKeepsAdmissionOrder ==
  /\ [](\A state \in {"queued", "running", "finished", "failed"} :
          LET list == getJobsByState(jobs, state) IN
          /\ \A k \in 1..Len(list) : list[k].state = state /\ has(jobs, list[k].job_id)
          /\ \A i \in 1..Len(jobs) :
               jobs[i].state = state => \E k \in 1..Len(list) : list[k] = jobs[i]
          /\ \A k, l \in 1..Len(list) :
               k < l => IndexOf(jobs, list[k].job_id) < IndexOf(jobs, list[l].job_id))
  /\ [][/\ \A i \in 1..Len(jobs) : has(jobs', jobs[i].job_id)
        /\ \A i, j \in 1..Len(jobs) :
             i < j => IndexOf(jobs', jobs[i].job_id) < IndexOf(jobs', jobs[j].job_id)
        /\ \A i \in 1..Len(jobs), k \in 1..Len(jobs') :
             ~has(jobs, jobs'[k].job_id) => IndexOf(jobs', jobs[i].job_id) < k]_vars

\* the record created second was cancelled before the record created
\* first, and the list of failed records has the first one first
UpdatedInReverse ==
  /\ Len(jobs) = 2
  /\ jobs[1].state = "failed" /\ jobs[2].state = "failed"
  /\ jobs[2].finished_at = Some(1) /\ jobs[1].finished_at = Some(2)
  /\ getJobsByState(jobs, "failed") = jobs

\* the invocations of executeJob whose result _startJob has not recorded
inFlight == {i \in 1..Len(execs) : execs[i].result = Null}

\* C34. Running accounting: a record is running exactly when one
\* invocation of executeJob for it is in flight, no record has more than
\* one in flight, and getRunningJobCount, which GET /health reports as
\* running_jobs, is the number of invocations in flight; a step changes
\* the count by the records it leaves running that were not, less the
\* running records it writes a completion for.
RunningMatchesInFlight ==
  /\ [](/\ \A r \in Records :
             /\ Cardinality(invocationsOf(r.job_id) \cap inFlight) <= 1
             /\ r.state = "running" <=> invocationsOf(r.job_id) \cap inFlight # {}
        /\ \A i \in inFlight : has(jobs, execs[i].job_id)
        /\ getRunningJobCount(jobs) = Cardinality(inFlight)
        /\ getHealth(jobs, config).running_jobs = Cardinality(inFlight))
  /\ [][getRunningJobCount(jobs') =
          getRunningJobCount(jobs)
            + Cardinality({i \in 1..Len(jobs) :
                             jobs[i].state # "running" /\ jobs'[i].state = "running"})
            - Cardinality({i \in 1..Len(jobs) :
                             /\ jobs[i].state = "running"
                             /\ jobs'[i].state \in {"finished", "failed"}
                             /\ jobs'[i].finished_at # Null})]_vars

\* one execution is in flight beside one that was started and recorded in
\* the tick that dispatched it, no process spawned
OneInFlightOthersRecorded ==
  /\ Cardinality(inFlight) = 1
  /\ getRunningJobCount(jobs) = 1
  /\ \E i \in 1..Len(execs) : ~execs[i].spawned /\ execs[i].result # Null

\* C35. Cancelling a job that has ended changes nothing: a DELETE for a
\* record that is finished or failed, a cancelled one included, leaves
\* the whole ledger as it was and answers with the record's state.
CancelTerminalIsNoOp ==
  [][/\ resp # resp' /\ resp'.op = "DELETE"
     /\ has(jobs, resp'.job_id[2])
     /\ getJob(jobs, resp'.job_id[2])[1].state \in {"finished", "failed"}
     => /\ jobs' = jobs
        /\ resp'.state = getJob(jobs, resp'.job_id[2])[1].state]_vars

\* a DELETE has just been answered for a record that was cancelled at an
\* earlier time, beside a finished record
CancelledTwice ==
  /\ resp.op = "DELETE" /\ resp.state = "failed" /\ resp.status = 202
  /\ getJob(jobs, resp.job_id[2])[1].error = Some("CANCELLED")
  /\ getJob(jobs, resp.job_id[2])[1].finished_at # Some(now)
  /\ \E r \in Records : r.state = "finished"

\* C36. A rejection reserves nothing: a body that passes validation, with
\* a job_id the ledger does not hold, is accepted and gets a queued
\* record, whether or not a body with that job_id was rejected before;
\* JOB_ID_ALREADY_EXISTS answers only a job_id the ledger holds, and the
\* ledger holds no job_id but those of accepted bodies.
RejectionReservesNothing ==
  /\ [](\A r \in Records : r.job \in ValidBodies(Ids) /\ r.job_id = Get(r.job, "job_id")[2])
  /\ [][resp # resp' /\ resp'.op = "POST" =>
          /\ resp'.code = Some("JOB_ID_ALREADY_EXISTS") => has(jobs, resp'.job_id[2])
          /\ validateJobRequest(resp'.request, config) = Null
               /\ ~has(jobs, Get(resp'.request, "job_id")[2])
             => /\ resp'.status = 202 /\ resp'.accepted = Some(TRUE)
                /\ has(jobs', Get(resp'.request, "job_id")[2])
                /\ getJob(jobs', Get(resp'.request, "job_id")[2])[1].state = "queued"]_vars

\* a body has just been accepted under a job_id with which a body was
\* rejected before
AcceptedAfterRejection ==
  /\ resp.op = "POST" /\ resp.status = 202
  /\ resp.job_id[2] \in refused
  /\ getJob(jobs, resp.job_id[2])[1].state = "queued"

\* C37. At most one tick timer: in every state at most one interval timer
\* is active, and one is active exactly when the scheduler holds a handle;
\* start() on a started scheduler changes neither, start() on a stopped
\* one leaves exactly one timer, and stop() leaves none.
StartIsIdempotent ==
  /\ [](/\ intervals \in {0, 1}
        /\ intervalHandle # Null <=> intervals = 1)
  /\ [][call' # call /\ call'.op = "start" =>
          /\ intervals' = 1 /\ intervalHandle' # Null
          /\ intervalHandle # Null => UNCHANGED <<intervalHandle, intervals>>]_vars
  /\ [][call' # call /\ call'.op = "stop" =>
          intervals' = 0 /\ intervalHandle' = Null]_vars

\* start() has just been called after stop(), on a scheduler that had
\* dispatched a job before: one timer is active
RestartedWithOneTimer ==
  /\ call.op = "start" /\ call.previous = "stop"
  /\ intervals = 1 /\ intervalHandle # Null
  /\ \E r \in Records : r.started_at # Null

\* the fetches of a discovery or of a poll that have been answered, or
\* dropped, by the step
answered == {p \in pending : p.kind \in {"probe", "poll"} /\ p \notin pending'}

\* C38. Stale results and timers: a step that hands on the answer of a
\* probe or of a poll started under a run that stopDashboard has since
\* ended changes neither knownWorkerIPs nor workerState nor the cards; the
\* run token of every fetch of the current run is the active one and that
\* of an ended run is not; and at most one discovery timer and one poll
\* timer are active, those whose handles the page holds.
StaleResultsDropped ==
  /\ [](/\ \A p \in pending :
             p.kind \in {"probe", "poll"} =>
               (p.era = stops <=> p.runToken = activeRunToken)
        /\ Cardinality({t \in timers : t.kind = "discovery"}) <= 1
        /\ Cardinality({t \in timers : t.kind = "poll"}) <= 1
        /\ \A t \in timers :
             /\ t.era = stops /\ t.runToken = activeRunToken
             /\ t.kind = "discovery" => discoveryTimer = Some(t)
             /\ t.kind = "poll" => pollTimer = Some(t)
        /\ discoveryTimer # Null => discoveryTimer[1] \in timers
        /\ pollTimer # Null => pollTimer[1] \in timers)
  /\ [][\A p \in answered :
          p.era # stops => UNCHANGED <<knownWorkerIPs, workerState, cards>>]_vars

\* a poll of an ended run is still awaited, with failures it would count,
\* beside the timers and a fetch of the run that replaced it
StalePollAwaited ==
  /\ \E p \in pending : p.kind = "poll" /\ p.era # stops
  /\ \E p \in pending : p.kind = "probe" /\ p.era = stops
  /\ Cardinality(timers) = 2
  /\ knownWorkerIPs # {}

\* the polls whose awaited results the step handles
handled == {p \in pending : p.kind = "poll" /\ p \notin pending'}

\* the addresses of a poll handled by the step under the run still active
counted == UNION {p.ips : p \in {q \in handled : q.runToken = activeRunToken}}

\* C39. Offline detection: the miss counter of an address is the number of
\* its failed polls since its last successful one (failedPolls, which the
\* poll results alone write); a step handling a poll turns a card offline
\* only for an address of that poll whose failed polls in a row have
\* reached the poll's missedThreshold; an address that answered the poll
\* has its counter at 0 and its card, if it has one, online; and no step
\* handling a poll changes knownWorkerIPs.
OfflineAfterThreshold ==
  /\ [](workerState = failedPolls)
  /\ [][\A p \in handled :
          /\ knownWorkerIPs' = knownWorkerIPs
          /\ \A ip \in DOMAIN cards' :
               (cards'[ip] = "offline" /\ cards[ip] # "offline") =>
                 /\ ip \in p.ips
                 /\ failedPolls'[ip] >= p.missedThreshold
                 /\ failedPolls'[ip] = missCount(failedPolls, ip) + 1
          /\ \A ip \in counted :
               failedPolls'[ip] = 0 =>
                 /\ workerState'[ip] = 0
                 /\ ip \in DOMAIN cards' => cards'[ip] = "online"]_vars

\* a worker that the page knows and shows offline after MaxThreshold failed
\* polls in a row, still known
ShownOfflineAtThreshold ==
  /\ \E ip \in knownWorkerIPs :
       /\ ip \in DOMAIN cards /\ cards[ip] = "offline"
       /\ ip \in DOMAIN failedPolls /\ failedPolls[ip] = MaxThreshold
  /\ \E t \in timers : t.kind = "poll" /\ t.missedThreshold = MaxThreshold

=============================================================================
